---- MODULE Spec2Model ----
(***************************************************************************)
(* SpriteMatic backend: the generation records, the fingerprint cache, the *)
(* job queue, the attempt controller (processGeneration), the request path *)
(* (createGenerationRequest and the POST /sprite route) and the read path  *)
(* (getGenerationById, listGenerationsForUser, markStaleGenerationFailed). *)
(*                                                                         *)
(* Units.  Money is counted in 1e-8 USD: a rate of r USD per million       *)
(* tokens is stored as 100*r, so tokens * rate is the cost in 1e-8 USD.    *)
(* Quality scores are counted in hundredths of a point (91.4 is 9140).     *)
(* Time is counted in milliseconds, the clock advancing by ClockStepMs.    *)
(* Prompts are represented by their length in characters, which is all     *)
(* the controller reads of them (estimateTokens).                          *)
(***************************************************************************)
EXTENDS Integers, Sequences, FiniteSets, TLC

\* ------------------------------------------------------------------ bounds
MaxGen == 2            \* generation ids that can be created
MaxClock == 2          \* clock steps the model follows
ClockStepMs == 200000  \* milliseconds in one clock step
MaxRequests == 2       \* calls of POST /sprite the model follows

\* ------------------------------------------------------- program constants
STALE_GENERATION_MS == 300000
QueueAttempts == 3
NegInf == -1000000

MODEL_ACCESS_FALLBACK == "gpt-image-1"

NoGen == 0
GenIds == 1 .. MaxGen

Min(a, b) == IF a <= b THEN a ELSE b
Max(a, b) == IF a >= b THEN a ELSE b
Clamp(x, lo, hi) == Min(Max(x, lo), hi)
CeilDiv(a, b) == (a + b - 1) \div b

\* ------------------------------------------------------------ model rates
DefaultProfile ==
  [inputPerMTokens |-> 40, outputPerMTokens |-> 0, maxAttempts |-> 3,
   compactPrompt |-> FALSE, correctionIssueLimit |-> 2]

modelRates ==
  [m \in {"gpt-4.1", "gpt-4.1-mini", "gpt-4.1-nano", "gpt-4o", "gpt-4o-mini", "gpt-image-1"} |->
    CASE m = "gpt-4.1" ->
           [inputPerMTokens |-> 200, outputPerMTokens |-> 800, maxAttempts |-> 4,
            compactPrompt |-> FALSE, correctionIssueLimit |-> 2]
      [] m = "gpt-4.1-mini" ->
           [inputPerMTokens |-> 40, outputPerMTokens |-> 160, maxAttempts |-> 3,
            compactPrompt |-> TRUE, correctionIssueLimit |-> 2]
      [] m = "gpt-4.1-nano" ->
           [inputPerMTokens |-> 10, outputPerMTokens |-> 40, maxAttempts |-> 4,
            compactPrompt |-> TRUE, correctionIssueLimit |-> 3]
      [] m = "gpt-4o" ->
           [inputPerMTokens |-> 250, outputPerMTokens |-> 1000, maxAttempts |-> 3,
            compactPrompt |-> FALSE, correctionIssueLimit |-> 2]
      [] m = "gpt-4o-mini" ->
           [inputPerMTokens |-> 15, outputPerMTokens |-> 60, maxAttempts |-> 2,
            compactPrompt |-> TRUE, correctionIssueLimit |-> 2]
      [] m = "gpt-image-1" ->
           [inputPerMTokens |-> 40, outputPerMTokens |-> 0, maxAttempts |-> 4,
            compactPrompt |-> FALSE, correctionIssueLimit |-> 4]]

getModelProfile(model) ==
  IF model \in DOMAIN modelRates THEN modelRates[model] ELSE DefaultProfile

\* The ceiling without the configured limit.
AttemptCeilingOfProfile(model, cfgMax) == getModelProfile(model).maxAttempts

\* The attempt ceiling of a model: Math.min(modelProfile.maxAttempts,
\* Math.max(1, env.QUALITY_MAX_ATTEMPTS)).
AttemptCeiling(model, cfgMax) == Min(getModelProfile(model).maxAttempts, Max(1, cfgMax))

\* The cost at the rates of an unknown model.
estimateCostUsdAtDefaultRates(model, inputTokens, outputTokens) ==
  inputTokens * DefaultProfile.inputPerMTokens + outputTokens * DefaultProfile.outputPerMTokens

estimateCostUsd(model, inputTokens, outputTokens) ==
  inputTokens * getModelProfile(model).inputPerMTokens
    + outputTokens * getModelProfile(model).outputPerMTokens

\* Math.max(1, Math.ceil(length / 4)) of the whitespace-normalised text, 0 when empty.
estimateTokens(len) == IF len = 0 THEN 0 ELSE Max(1, CeilDiv(len, 4))

\* Math.round(sheetPixels / 20) clamped to [512, 12000].
estimateOutputTokens(spriteSize, columns, rows) ==
  Clamp((spriteSize * spriteSize * columns * rows + 10) \div 20, 512, 12000)

buildAttemptCostEstimate(model, promptLen, outputTokensEstimate) ==
  estimateCostUsd(model, estimateTokens(promptLen), outputTokensEstimate)

\* ------------------------------------------------------------------ layout
\* Math.ceil(Math.sqrt(n)) for n >= 1: the least k with k * k >= n.
CeilSqrt(n) == CHOOSE k \in 1 .. n : k * k >= n /\ (k - 1) * (k - 1) < n

\* The rows rounded down instead of up.
resolveLayoutFloor(frameCount, layout, columns) ==
  IF layout = "row"
  THEN [columns |-> frameCount, rows |-> 1]
  ELSE LET finalColumns == IF columns # 0 THEN columns ELSE Max(1, CeilSqrt(frameCount))
       IN [columns |-> finalColumns, rows |-> frameCount \div finalColumns]

\* columns = 0 stands for an absent `columns` field.
resolveLayout(frameCount, layout, columns) ==
  IF layout = "row"
  THEN [columns |-> frameCount, rows |-> 1]
  ELSE LET finalColumns == IF columns # 0 THEN columns ELSE Max(1, CeilSqrt(frameCount))
       IN [columns |-> finalColumns, rows |-> CeilDiv(frameCount, finalColumns)]

shouldQueueGeneration(input) ==
  input.frameCount * input.spriteSize > 768 \/ input.frameCount > 10 \/ input.spriteSize > 96

\* ----------------------------------------------------------------- prompts
\* A prompt is [body, seed, seedLines]: the length of its lines other than the
\* seed lines, the value on its `seed=` lines (-1: no seed line) and how many
\* of its lines are `seed=` lines.  An animation type is the sequence of the
\* lines of its text.
PlainAnimation == <<"walk">>
SeedAnimation == <<"walk", "seed=1">>

\* /^\s*seed=/i.test(line.trim())
IsSeedLine(line) == line \in {"seed=1"}
Digits(n) ==
  CASE n < 10 -> 1 [] n < 100 -> 2 [] n < 1000 -> 3 [] n < 10000 -> 4
    [] n < 100000 -> 5 [] n < 1000000 -> 6 [] n < 10000000 -> 7
    [] n < 100000000 -> 8 [] n < 1000000000 -> 9 [] OTHER -> 10

PromptLength(prompt) ==
  prompt.body + prompt.seedLines * (6 + Digits(prompt.seed))

\* The strict template joined by newlines: the compact one is 9 lines, the
\* verbose one 14; the theme text, with its white space collapsed, is spliced
\* into the `Theme:` line and the animation type, as it is, into the
\* `Animation` line, so that every line of the animation type after its first
\* starts a line of the prompt.  The seed line is the last of the template.
buildSpritePrompt(themeLen, seed, compact, animationType) ==
  [body |-> (IF compact THEN 900 ELSE 1500) + themeLen, seed |-> seed,
   seedLines |-> 1 + Cardinality({i \in 2 .. Len(animationType) : IsSeedLine(animationType[i])})]

\* Every `seed=` line is rewritten, and one is appended when there is none.
replaceSeedLine(prompt, seed) == [prompt EXCEPT !.seed = seed, !.seedLines = Max(1, @)]

\* A stand-in for readUInt32LE(0) of the SHA-256 digest of
\* `${generationId}:${normalizedSeed}:${attempt}`: a fixed function of the
\* three values (a null seed counts as 0).
attemptSeedForAttempt(seed, generationId, attempt) ==
  (generationId * 7919 + (IF seed = -1 THEN 0 ELSE seed) * 104729 + attempt * 1299709) % 1000003

\* The base prompt cut to 170 (compact) or 250 characters plus the ellipsis,
\* the fixed correction lines, and one `- issue` line per listed issue (at
\* most issueLimit of them, one generic line when there is none).  The
\* correction template holds no seed line.
buildQualityCorrectionPrompt(issues, compact, issueLimit) ==
  [body |-> (IF compact THEN 171 ELSE 251) + 330
              + 40 * (IF Len(issues) = 0 THEN 1 ELSE Min(Len(issues), Max(1, issueLimit))),
   seed |-> -1, seedLines |-> 0]

\* ---------------------------------------------------------------- warnings
RECURSIVE dedupeFrom(_, _)
dedupeFrom(warnings, seen) ==
  IF warnings = <<>> THEN <<>>
  ELSE IF Head(warnings) \in seen \/ Head(warnings) = ""
       THEN dedupeFrom(Tail(warnings), seen)
       ELSE <<Head(warnings)>> \o dedupeFrom(Tail(warnings), seen \cup {Head(warnings)})

\* Trimmed, non-empty, first occurrence kept, order kept.
dedupeWarnings(warnings) == dedupeFrom(warnings, {})

\* The sorted, de-duplicated, lower-cased warnings joined by "|": two lists
\* have equal signatures exactly when they hold the same set of strings.
buildWarningSignature(warnings) == {warnings[i] : i \in 1 .. Len(warnings)} \ {""}

\* -------------------------------------------------- scorer and verifier tail
\* Scores and minScore are in hundredths of a point.  The score under
\* penalties is in ScoreUnit-ths of a hundredth, in which every penalty of
\* a ratio given to four decimals is a whole number.
ScoreUnit == 90

\* The last lines of scoreFromPenalties: a score with no recorded reason is
\* floored at minScore, every score is clamped to [0, 100], and the result is
\* rounded to one decimal (toFixed(1): to the nearest tenth, a half upwards).
scoreFromPenalties(reasons, penalised, minScore) ==
  LET floored == IF Len(reasons) = 0 THEN Max(penalised, minScore * ScoreUnit) ELSE penalised
      clamped == Clamp(floored, 0, 10000 * ScoreUnit)
  IN ((clamped + 5 * ScoreUnit) \div (10 * ScoreUnit)) * 10

\* The tail of validateSpriteQuality over the reasons and the penalised score
\* the pixel metrics gave.
validateSpriteQuality(rawReasons, penalised, minScore) ==
  LET score == scoreFromPenalties(rawReasons, penalised, minScore)
      reasons == IF score < minScore
                 THEN Append(rawReasons, "Quality score is below minimum")
                 ELSE rawReasons
  IN [ok |-> Len(reasons) = 0 /\ score >= minScore, reasons |-> reasons, score |-> score]

\* An image is [width, height, alpha]: alpha maps the pixel <<x, y>> to the
\* value of its alpha channel.
frameOrigin(frameIndex, columns, spriteSize) ==
  [x |-> (frameIndex % columns) * spriteSize, y |-> (frameIndex \div columns) * spriteSize]

\* The scan of one frame slot for a pixel with alpha above 16; pixels outside
\* the sheet are skipped.
hasVisiblePixel(image, frameIndex, columns, spriteSize) ==
  LET origin == frameOrigin(frameIndex, columns, spriteSize)
  IN \E localX \in 0 .. spriteSize - 1, localY \in 0 .. spriteSize - 1 :
       /\ origin.x + localX < image.width
       /\ origin.y + localY < image.height
       /\ image.alpha[<<origin.x + localX, origin.y + localY>>] > 16

SelectFailures(checks) ==
  LET RECURSIVE from(_)
      from(i) == IF i > Len(checks) THEN <<>>
                 ELSE (IF checks[i][1] THEN <<checks[i][2]>> ELSE <<>>) \o from(i + 1)
  IN from(1)

\* The checks without the one on the unused slots.
SettingsFailuresOfUsedSlots(image, spriteSize, frameCount, columns, rows) ==
  LET frameSlots == columns * rows
      hasTransparency == \E xy \in DOMAIN image.alpha : image.alpha[xy] < 255
      nonEmptyFrameCount ==
        Cardinality({i \in 0 .. frameSlots - 1 : hasVisiblePixel(image, i, columns, spriteSize)})
  IN SelectFailures(<<
       <<image.width # spriteSize * columns, "sheet width does not match requested">>,
       <<image.height # spriteSize * rows, "sheet height does not match requested">>,
       <<image.width % columns # 0, "sheet width is not divisible by columns">>,
       <<image.height % rows # 0, "sheet height is not divisible by rows">>,
       <<image.width \div Max(1, columns) # spriteSize, "frame width does not match requested">>,
       <<image.height \div Max(1, rows) # spriteSize, "frame height does not match requested">>,
       <<frameSlots < frameCount, "layout capacity is below requested frame count">>,
       <<nonEmptyFrameCount < frameCount, "only some non-empty frames detected">>,
       <<~hasTransparency, "image is not RGBA transparent as requested">> >>)

\* The checks of verifyImageAgainstRequestedSettings, in their order; the
\* numbers are left out of the messages.
SettingsFailures(image, spriteSize, frameCount, columns, rows) ==
  LET frameSlots == columns * rows
      hasTransparency == \E xy \in DOMAIN image.alpha : image.alpha[xy] < 255
      frameWidth == image.width \div Max(1, columns)
      frameHeight == image.height \div Max(1, rows)
      nonEmpty == {i \in 0 .. frameSlots - 1 : hasVisiblePixel(image, i, columns, spriteSize)}
      nonEmptyFrameCount == Cardinality(nonEmpty)
      unusedSlotsWithContent == Cardinality({i \in nonEmpty : i >= frameCount})
  IN SelectFailures(<<
       <<image.width # spriteSize * columns, "sheet width does not match requested">>,
       <<image.height # spriteSize * rows, "sheet height does not match requested">>,
       <<image.width % columns # 0, "sheet width is not divisible by columns">>,
       <<image.height % rows # 0, "sheet height is not divisible by rows">>,
       <<frameWidth # spriteSize, "frame width does not match requested">>,
       <<frameHeight # spriteSize, "frame height does not match requested">>,
       <<frameSlots < frameCount, "layout capacity is below requested frame count">>,
       <<nonEmptyFrameCount < frameCount, "only some non-empty frames detected">>,
       <<unusedSlotsWithContent > 0, "unused frame slots contain sprite content">>,
       <<~hasTransparency, "image is not RGBA transparent as requested">> >>)

\* ------------------------------------------------------------- stabilizer
\* A sheet is the sequence of its frame slots; the content of a slot is a
\* filled rectangle of visible pixels [minX, maxX, minY, maxY] in the slot's
\* own coordinates, or nothing.  Centres are kept in quarters of a pixel.
NoBox == [empty |-> TRUE, minX |-> 0, maxX |-> 0, minY |-> 0, maxY |-> 0]
Box(minX, maxX, minY, maxY) ==
  [empty |-> FALSE, minX |-> minX, maxX |-> maxX, minY |-> minY, maxY |-> maxY]

\* sorted[k] of the values of a sequence, k from 1.
SortedAt(values, k) ==
  CHOOSE v \in {values[i] : i \in 1 .. Len(values)} :
    /\ Cardinality({i \in 1 .. Len(values) : values[i] < v}) < k
    /\ Cardinality({i \in 1 .. Len(values) : values[i] <= v}) >= k

\* median of a sequence of even numbers; the mean of the two middle values of
\* an even count is whole.
median(values) ==
  IF Len(values) = 0 THEN 0
  ELSE LET middle == Len(values) \div 2
       IN IF Len(values) % 2 = 1 THEN SortedAt(values, middle + 1)
          ELSE (SortedAt(values, middle) + SortedAt(values, middle + 1)) \div 2

IndicesWhere(sheet, keep) ==
  LET RECURSIVE from(_)
      from(i) == IF i > Len(sheet) THEN <<>>
                 ELSE (IF i \in keep THEN <<i>> ELSE <<>>) \o from(i + 1)
  IN from(1)

\* The placement of one extent of a frame: `size` visible pixels scaled by
\* num / den and put with its middle at the safe centre, inside the insets.
\* Math.round(x) is floor(x + 1/2).
destMinOf(size, num, den, safeCenter4, innerInset, spriteSize) ==
  LET scaled == Max(1, (size * num) \div den)
      availableDestination == spriteSize - scaled
      effectiveInset == Min(Max(0, innerInset), Max(0, availableDestination) \div 2)
      maxDest == Max(0, availableDestination - effectiveInset)
  IN [min |-> Clamp((safeCenter4 - 2 * scaled + 2) \div 4, effectiveInset, maxDest),
      size |-> scaled]

\* stabilizeSpriteSheet: the frames are translated (and, when the largest
\* exceeds the content size, scaled down) so that the middles of their
\* bounding boxes meet at the median of the middles, clamped to the insets.
\* A slot that is empty or beyond the frame count comes out empty; a sheet
\* without content is returned as it is.
stabilizeSpriteSheet(sheet, spriteSize, frameCount) ==
  LET activeFrames == Clamp(frameCount, 1, Len(sheet))
      innerInset == Max(2, (spriteSize * 6) \div 100)
      frameInset == Max(innerInset, spriteSize \div 100)
      maxFrameContentSize == Max(2, spriteSize - 2 * frameInset)
      filled == IndicesWhere(sheet, {i \in 1 .. activeFrames : ~sheet[i].empty})
      widthOf(i) == sheet[i].maxX - sheet[i].minX + 1
      heightOf(i) == sheet[i].maxY - sheet[i].minY + 1
      maxFrameDimension ==
        CHOOSE d \in {widthOf(filled[k]) : k \in 1 .. Len(filled)}
                      \cup {heightOf(filled[k]) : k \in 1 .. Len(filled)} :
          \A k \in 1 .. Len(filled) : d >= widthOf(filled[k]) /\ d >= heightOf(filled[k])
      \* baseScale = num / den
      num == IF maxFrameDimension <= maxFrameContentSize THEN 1 ELSE maxFrameContentSize
      den == IF maxFrameDimension <= maxFrameContentSize THEN 1 ELSE maxFrameDimension
      paddedHalfContent == Clamp(Min(maxFrameDimension, maxFrameContentSize) \div 2,
                                 0, spriteSize \div 2)
      low == 4 * (innerInset + paddedHalfContent)
      high == Max(low, 4 * (spriteSize - innerInset - paddedHalfContent))
      safeCenterX == Clamp(median([k \in 1 .. Len(filled) |->
                             2 * (sheet[filled[k]].minX + sheet[filled[k]].maxX)]), low, high)
      safeCenterY == Clamp(median([k \in 1 .. Len(filled) |->
                             2 * (sheet[filled[k]].minY + sheet[filled[k]].maxY)]), low, high)
  IN IF Len(filled) = 0 THEN sheet
     ELSE [i \in 1 .. Len(sheet) |->
             IF i > activeFrames \/ sheet[i].empty THEN NoBox
             ELSE LET x == destMinOf(widthOf(i), num, den, safeCenterX, innerInset, spriteSize)
                      y == destMinOf(heightOf(i), num, den, safeCenterY, innerInset, spriteSize)
                  IN Box(x.min, x.min + x.size - 1, y.min, y.min + y.size - 1)]

\* The thresholds of validateSpriteQuality for a `walk` animation; ratios are
\* in ten-thousandths.
QualityThresholds(minScore) ==
  [minScore |-> minScore, minTransparentRatio |-> 1500, maxTranslucentRatio |-> 300,
   maxOuterEdgeOpaqueRatio |-> 1600, maxBoundaryBleedRatio |-> 8200,
   minMeanConsecutiveDelta |-> 100]

\* The metrics of a sheet with no drift, no scale variation, distinct frame
\* pairs and a colour count within its range: the ratios as rounded to four
\* decimals, the frame counts, and whether any pixel is transparent.
\* The reasons validateSpriteQuality records on such a sheet before scoring.
qualityReasons(metrics, thresholds) ==
  SelectFailures(<<
    <<metrics.hasDimensionMismatch, "Image dimensions mismatch">>,
    <<~metrics.hasTransparency, "Missing transparent background">>,
    <<metrics.transparentPixelRatio < thresholds.minTransparentRatio,
      "Transparent pixel ratio too low">>,
    <<metrics.translucentPixelRatio > thresholds.maxTranslucentRatio,
      "Too many semi-transparent pixels">>,
    <<metrics.outerEdgeOpaqueRatio > thresholds.maxOuterEdgeOpaqueRatio,
      "Possible clipping on outer sheet edges">>,
    <<metrics.maxBoundaryBleedRatio > thresholds.maxBoundaryBleedRatio,
      "Possible frame bleed at internal boundaries">>,
    <<metrics.emptyFrameCount > 0, "Detected nearly empty frames">>,
    <<metrics.overcrowdedFrameCount > 0, "Detected overcrowded frames">>,
    <<metrics.clippedFrameCount > 0, "Detected frames touching frame edges">>,
    <<metrics.analyzedFrameCount > 1
        /\ metrics.meanConsecutiveFrameDelta < thresholds.minMeanConsecutiveDelta,
      "Animation motion is too low">> >>)

\* The score with the outer-edge term added instead of taken away.
penalisedScoreRewardingEdges(metrics, thresholds) ==
  100 * 100 * ScoreUnit + Clamp(metrics.outerEdgeOpaqueRatio * 81, 0, 18 * 100 * ScoreUnit)
    - Min(30, metrics.emptyFrameCount * 6) * 100 * ScoreUnit
    - Min(20, metrics.overcrowdedFrameCount * 4) * 100 * ScoreUnit
    - Min(30, metrics.clippedFrameCount * 5) * 100 * ScoreUnit

\* scoreFromPenalties before its last lines: 100 points less the penalties.
\* A point is 100 * ScoreUnit; a ten-thousandth of transparent deficit costs
\* 20 / 1500 of a point, of translucent excess 18 / 300, of outer-edge
\* occupancy 90 / 10000, of boundary bleed 14 / 1800 and of motion deficit
\* 14 / 100.
penalisedScore(metrics, thresholds) ==
  LET point == 100 * ScoreUnit
      dimension == IF metrics.hasDimensionMismatch THEN 28 * point ELSE 0
      transparency == IF ~metrics.hasTransparency THEN 24 * point ELSE 0
      transparent ==
        IF metrics.transparentPixelRatio < thresholds.minTransparentRatio
        THEN Clamp((thresholds.minTransparentRatio - metrics.transparentPixelRatio) * 120,
                   0, 20 * point)
        ELSE 0
      translucent ==
        IF metrics.translucentPixelRatio > thresholds.maxTranslucentRatio
        THEN Clamp((metrics.translucentPixelRatio - thresholds.maxTranslucentRatio) * 540,
                   0, 18 * point)
        ELSE 0
      outerEdge == Clamp(metrics.outerEdgeOpaqueRatio * 81, 0, 18 * point)
      bleed ==
        IF metrics.maxBoundaryBleedRatio > thresholds.maxBoundaryBleedRatio
        THEN Clamp((metrics.maxBoundaryBleedRatio - thresholds.maxBoundaryBleedRatio) * 70,
                   0, 14 * point)
        ELSE 0
      frames == Min(30, metrics.emptyFrameCount * 6) * point
                  + Min(20, metrics.overcrowdedFrameCount * 4) * point
                  + Min(30, metrics.clippedFrameCount * 5) * point
      motion ==
        IF metrics.meanConsecutiveFrameDelta < thresholds.minMeanConsecutiveDelta
        THEN Clamp((thresholds.minMeanConsecutiveDelta - metrics.meanConsecutiveFrameDelta) * 1260,
                   0, 14 * point)
        ELSE 0
  IN 100 * point - dimension - transparency - transparent - translucent - outerEdge - bleed
       - frames - motion

\* The tail of verifyImageAgainstRequestedSettings over its failures list.
verifyImageAgainstRequestedSettings(failures) ==
  [passed |-> Len(failures) = 0,
   summary |-> IF Len(failures) = 0 THEN "Image meets or exceeds requested settings."
               ELSE "Image does not meet requested settings.",
   failures |-> failures]

\* The rank without the penalty of the warnings.
candidateRankIgnoringWarnings(candidate) ==
  (IF candidate.settingsVerification.passed THEN 100000 ELSE 0) + candidate.score

candidateRank(candidate) ==
  (IF candidate.settingsVerification.passed THEN 100000 ELSE 0)
    + candidate.score - 50 * Len(candidate.qualityWarnings)

\* ------------------------------------------------------------------- state
VARIABLES
  env,      \* the parsed environment: the global knobs of the controller
  db,       \* spriteGeneration rows by id
  cache,    \* redis: cache key (fingerprint) -> generation id
  s3,       \* ids whose image has been uploaded
  queue,    \* BullMQ jobs by generation id
  clock,    \* Date.now(), in ClockStepMs steps
  req,      \* POST /sprite handlers
  ctl,      \* processGeneration invocations, one per worker or inline handler
  rd,       \* stale rows a read-path call is about to update
  issued,   \* calls of POST /sprite so far
  hist,     \* history: what happened to each generation id
  call      \* a call of one of the pure functions: its input and its result

program == <<env, db, cache, s3, queue, clock, req, ctl, rd, issued, hist>>
vars == <<program, call>>

\* No pure function is under examination.
NoCall == [fn |-> "none"]

Handlers == {"h1", "h2"}
Workers == {"w1"}
Procs == Handlers \cup Workers

NullReason == "<null>"
StaleReason == "Generation did not complete and timed out. Please regenerate."
BudgetNote == "Stopped early due to token budget limit. Lowering prompt complexity or choosing a cheaper model may help."
StagnationNote == "Stopped early due to no quality signal improvement across attempts."

NoRow ==
  [status |-> "NONE", userId |-> "", themeLen |-> 0, spriteSize |-> 0, frameCount |-> 0,
   columns |-> 0, rows |-> 0, seed |-> -1, modelVersion |-> "", animationType |-> <<>>,
   prompt |-> [body |-> 0, seed |-> -1, seedLines |-> 0], promptTokens |-> 0, qualityWarnings |-> <<>>,
   errorReason |-> NullReason, imageKey |-> FALSE, jsonConfig |-> FALSE,
   updatedAt |-> 0]

\* The hash of the semantic fields, represented by the fields themselves (the
\* requests of the model share projection, animation type and style intensity).
fingerprintForGeneration(userId, themeLen, spriteSize, frameCount, columns, rows, seed, modelVersion, animationType) ==
  <<userId, themeLen, spriteSize, frameCount, columns, rows, seed, modelVersion, animationType>>

\* @updatedAt: every update of a row stamps it with the current time.
Touch(row) == [row EXCEPT !.updatedAt = clock * ClockStepMs]

NoHist ==
  [backendCalls |-> 0,     \* backend calls made for the id, over all runs
   staleFailed |-> FALSE,  \* the read path has recorded the id as Failed
   fingerprint |-> <<>>,   \* the fingerprint the id was created under
   registered |-> FALSE,   \* createGenerationRequest has returned the id
   defects |-> <<>>,       \* warnings of the best candidate of the latest run
   uploadedBuffer |-> 0,   \* the buffer stored under the image key (0: none)
   accepted |-> [attempt |-> 0, ok |-> FALSE, passed |-> FALSE, score |-> 0, best |-> FALSE]]

IdleReq ==
  [pc |-> "idle", input |-> [userId |-> "", themeLen |-> 0, spriteSize |-> 0, frameCount |-> 0,
                             layout |-> "row", columns |-> 0, seed |-> -1, model |-> "",
                             animationType |-> <<>>],
   seenId |-> NoGen, seenStatus |-> "NONE", priorId |-> NoGen, genId |-> NoGen,
   response |-> "none", route |-> "sprite"]

NoCandidate ==
  [attempt |-> 0, buffer |-> 0, qualityWarnings |-> <<>>, qualityOk |-> FALSE,
   settingsVerification |-> [passed |-> FALSE, summary |-> "", failures |-> <<>>],
   score |-> 0, warningSignature |-> {}, qualityScore |-> 0, frameRepair |-> FALSE]

IdleCtl ==
  [pc |-> "idle", gen |-> NoGen, requestedModel |-> "", activeModel |-> "", maxAttempts |-> 0,
   attempt |-> 0, promptForAttempt |-> [body |-> 0, seed |-> -1, seedLines |-> 0],
   sentPrompt |-> [body |-> 0, seed |-> -1, seedLines |-> 0], remainingBudgetUsd |-> 0,
   stopReason |-> "null", lastFailureSignature |-> {}, hasLastFailure |-> FALSE,
   lastFailureScore |-> NegInf, failureStallCount |-> 0, finalBuffer |-> 0,
   qualityWarnings |-> <<>>, inputTokens |-> 0, outputTokens |-> 0,
   settingsVerification |-> [passed |-> FALSE, summary |-> "", failures |-> <<>>],
   bestCandidate |-> NoCandidate, successfulAttempt |-> 0, attemptsExecuted |-> 0,
   error |-> "", backendAttempts |-> 0, consumed |-> 0, lastCost |-> 0, lastEstimate |-> 0,
   blockedAt |-> 0, outcome |-> "none", accepted |-> NoHist.accepted,
   candidates |-> <<>>,   \* history: the candidates of the run, in attempt order
   requests |-> <<>>,     \* history: the images.generate calls of the latest attempt
   analysed |-> <<>>]     \* history: what the pipeline found in each scored attempt

InitWith(envs) ==
  /\ env \in envs
  /\ db = [g \in GenIds |-> NoRow]
  /\ cache = {}
  /\ s3 = {}
  /\ queue = [g \in GenIds |-> [state |-> "none", attemptsMade |-> 0]]
  /\ clock = 0
  /\ req = [h \in Handlers |-> IdleReq]
  /\ ctl = [p \in Procs |-> IdleCtl]
  /\ rd = {}
  /\ issued = 0
  /\ hist = [g \in GenIds |-> NoHist]

\* ------------------------------------------------------------------- redis
\* cache is a set of <<key, id>> pairs with at most one pair per key.
redisGet(key) ==
  IF \E e \in cache : e[1] = key THEN (CHOOSE e \in cache : e[1] = key)[2] ELSE NoGen

redisSet(key, id) == {e \in cache : e[1] # key} \cup {<<key, id>>}

\* ------------------------------------------------- createGenerationRequest
InputFingerprint(input) ==
  LET layout == resolveLayout(input.frameCount, input.layout, input.columns)
  IN fingerprintForGeneration(input.userId, input.themeLen, input.spriteSize, input.frameCount,
                              layout.columns, layout.rows, input.seed, input.model,
                              input.animationType)

\* assertDailyLimit: the user's rows created today against dailyGenerationLimit.
DailyLimitReached(userId) ==
  Cardinality({g \in GenIds : db[g].status # "NONE" /\ db[g].userId = userId}) >= env.dailyGenerationLimit

\* The budget pre-check: all attempts of the model's ceiling at the estimate
\* of the first prompt.
PrecheckCostUsd(input) ==
  LET layout == resolveLayout(input.frameCount, input.layout, input.columns)
      maxAttempts == AttemptCeiling(input.model, env.QUALITY_MAX_ATTEMPTS)
      fullPrompt == buildSpritePrompt(input.themeLen, input.seed,
                                      getModelProfile(input.model).compactPrompt,
                                      input.animationType)
  IN estimateCostUsd(input.model,
                     estimateTokens(PromptLength(fullPrompt)) * maxAttempts,
                     estimateOutputTokens(input.spriteSize, layout.columns, layout.rows) * maxAttempts)

\* The cache test without the status of the row.
CacheServesAnyStatus(cachedId, userId) ==
  /\ cachedId # NoGen
  /\ db[cachedId].status # "NONE"
  /\ db[cachedId].userId = userId

\* A cached id is served when its row exists, is the caller's and is not FAILED.
CacheServes(cachedId, userId) ==
  /\ cachedId # NoGen
  /\ db[cachedId].status # "NONE"
  /\ db[cachedId].userId = userId
  /\ db[cachedId].status # "FAILED"

\* The earliest generation an earlier, finished createGenerationRequest call
\* created under the fingerprint (NoGen when there is none).
PriorGeneration(fp) ==
  LET prior == {g \in GenIds : hist[g].registered /\ hist[g].fingerprint = fp}
  IN IF prior = {} THEN NoGen ELSE CHOOSE g \in prior : \A o \in prior : g <= o

RegenerationInitFailure == "500 Failed to initialize regeneration"

\* createGenerationRequest up to its cache test: assertDailyLimit, the budget
\* pre-check, redis.get and findFirst.  On a cached generation POST /sprite
\* answers with it; POST /:id/regenerate, which is handed no generation,
\* answers 500.
StartRequest(h, input, limit, route) ==
  /\ req[h].pc = "idle"
  /\ issued < limit
  /\ issued' = issued + 1
  /\ LET fp == InputFingerprint(input)
         cachedId == redisGet(fp)
         started == [IdleReq EXCEPT !.input = input, !.priorId = PriorGeneration(fp),
                                    !.route = route]
     IN req' = [req EXCEPT ![h] =
          IF DailyLimitReached(input.userId)
          THEN [started EXCEPT !.response = "429"]
          ELSE IF PrecheckCostUsd(input) > env.MAX_ESTIMATED_GENERATION_COST_USD
          THEN [started EXCEPT !.response = "402"]
          ELSE IF CacheServes(cachedId, input.userId)
          THEN IF route = "regenerate"
               THEN [started EXCEPT !.response = RegenerationInitFailure,
                                    !.seenId = cachedId, !.seenStatus = db[cachedId].status]
               ELSE [started EXCEPT !.response = "cacheHit", !.genId = cachedId,
                                    !.seenId = cachedId, !.seenStatus = db[cachedId].status]
          ELSE [started EXCEPT !.pc = "create", !.seenId = cachedId,
                               !.seenStatus = IF cachedId = NoGen THEN "NONE"
                                              ELSE db[cachedId].status]]
  /\ UNCHANGED <<call, env, db, cache, s3, queue, clock, ctl, rd, hist>>

\* POST /sprite
ReqLookup(h, input, limit) == StartRequest(h, input, limit, "sprite")

\* buildRegenerationInput: the request rebuilt from the stored row.
buildRegenerationInput(generation) ==
  [userId |-> generation.userId, themeLen |-> generation.themeLen,
   spriteSize |-> generation.spriteSize, frameCount |-> generation.frameCount,
   layout |-> IF generation.rows = 1 THEN "row" ELSE "grid", columns |-> generation.columns,
   seed |-> generation.seed, model |-> generation.modelVersion,
   animationType |-> generation.animationType]

\* POST /:id/regenerate: 404 without a row of the caller, else
\* createGenerationRequest on the rebuilt input.
ReqRegenerate(h, g, userId, limit) ==
  IF db[g].status # "NONE" /\ db[g].userId = userId
  THEN StartRequest(h, buildRegenerationInput(db[g]), limit, "regenerate")
  ELSE /\ req[h].pc = "idle"
       /\ issued < limit
       /\ issued' = issued + 1
       /\ req' = [req EXCEPT ![h] = [IdleReq EXCEPT !.route = "regenerate", !.response = "404"]]
       /\ UNCHANGED <<call, env, db, cache, s3, queue, clock, ctl, rd, hist>>

\* DELETE /:id: deleteGenerationById removes the row of the caller; the cache
\* entry of its fingerprint stays.  The model follows the deletion of a
\* generation that no request, run or job is working on.
DeleteGeneration(g, userId) ==
  /\ db[g].status # "NONE"
  /\ db[g].userId = userId
  /\ \A p \in Procs : ctl[p].gen # g
  /\ \A h \in Handlers : req[h].pc = "idle"
  /\ queue[g].state \notin {"waiting", "active"}
  /\ g \notin rd
  /\ db' = [db EXCEPT ![g] = NoRow]
  /\ UNCHANGED <<call, env, cache, s3, queue, clock, req, ctl, rd, issued, hist>>

FreshIds == {g \in GenIds : hist[g].fingerprint = <<>>}

\* prisma.spriteGeneration.create: a new PENDING row.
ReqCreate(h) ==
  /\ req[h].pc = "create"
  /\ FreshIds # {}
  /\ LET g == CHOOSE x \in FreshIds : \A o \in FreshIds : x <= o
         input == req[h].input
         layout == resolveLayout(input.frameCount, input.layout, input.columns)
     IN /\ db' = [db EXCEPT ![g] = Touch(
                   [NoRow EXCEPT !.status = "PENDING", !.userId = input.userId,
                                 !.themeLen = input.themeLen, !.spriteSize = input.spriteSize,
                                 !.frameCount = input.frameCount, !.columns = layout.columns,
                                 !.rows = layout.rows, !.seed = input.seed,
                                 !.modelVersion = input.model,
                                 !.animationType = input.animationType,
                                 !.prompt = buildSpritePrompt(input.themeLen, input.seed,
                                              getModelProfile(input.model).compactPrompt,
                                              input.animationType)])]
        /\ hist' = [hist EXCEPT ![g].fingerprint = InputFingerprint(input)]
        /\ req' = [req EXCEPT ![h].pc = "setcache", ![h].genId = g]
  /\ UNCHANGED <<call, env, cache, s3, queue, clock, ctl, rd, issued>>

\* redis.set(cacheKey(fingerprint), generation.id, "EX", CACHE_TTL_SECONDS)
ReqCacheSet(h) ==
  /\ req[h].pc = "setcache"
  /\ cache' = redisSet(InputFingerprint(req[h].input), req[h].genId)
  /\ hist' = [hist EXCEPT ![req[h].genId].registered = TRUE]
  /\ req' = [req EXCEPT ![h].pc = "route"]
  /\ UNCHANGED <<call, env, db, s3, queue, clock, ctl, rd, issued>>

\* ------------------------------------------------------ POST /sprite, queue
\* The route after createGenerationRequest: enqueueSpriteJob for a large
\* request, processGeneration inline for a small one.
ReqRoute(h) ==
  /\ req[h].pc = "route"
  /\ IF shouldQueueGeneration(req[h].input)
     THEN /\ queue' = [queue EXCEPT ![req[h].genId] = [state |-> "waiting", attemptsMade |-> 0]]
          /\ req' = [req EXCEPT ![h].pc = "idle", ![h].response = "queued"]
          /\ ctl' = ctl
     ELSE /\ ctl' = [ctl EXCEPT ![h] = [IdleCtl EXCEPT !.pc = "load", !.gen = req[h].genId]]
          /\ req' = [req EXCEPT ![h].pc = "inline"]
          /\ queue' = queue
  /\ UNCHANGED <<call, env, db, cache, s3, clock, rd, issued, hist>>

\* The worker takes a waiting job and calls processGeneration(generationId).
Deliver(w) ==
  /\ ctl[w].pc = "idle"
  /\ \E g \in GenIds :
       /\ queue[g].state = "waiting"
       /\ queue' = [queue EXCEPT ![g].state = "active"]
       /\ ctl' = [ctl EXCEPT ![w] = [IdleCtl EXCEPT !.pc = "load", !.gen = g]]
  /\ UNCHANGED <<call, env, db, cache, s3, clock, req, rd, issued, hist>>

\* processGeneration has returned or thrown.  A job that threw is redelivered
\* until it has been attempted QueueAttempts times; the inline route answers
\* 201 or 422, and 500 through the error handler.
RunEnd(p) ==
  /\ ctl[p].pc \in {"returned", "threw"}
  /\ ctl' = [ctl EXCEPT ![p] = IdleCtl]
  /\ IF p \in Workers
     THEN /\ queue' = [queue EXCEPT ![ctl[p].gen] =
                 IF ctl[p].pc = "returned"
                 THEN [state |-> "completed", attemptsMade |-> @.attemptsMade + 1]
                 ELSE [state |-> IF @.attemptsMade + 1 < QueueAttempts THEN "waiting" ELSE "failed",
                       attemptsMade |-> @.attemptsMade + 1]]
          /\ req' = req
     ELSE /\ req' = [req EXCEPT ![p].pc = "idle",
                                ![p].response = IF ctl[p].pc = "threw" THEN "500"
                                                ELSE IF ctl[p].outcome = "failed" THEN "422"
                                                ELSE "201"]
          /\ queue' = queue
  /\ UNCHANGED <<call, env, db, cache, s3, clock, rd, issued, hist>>

\* ------------------------------------------------------- processGeneration
\* A thrown error that the try block of processGeneration does not cover.
Escape(p, message) == [ctl[p] EXCEPT !.pc = "threw", !.error = message]

\* A thrown error inside the try block: control passes to the catch block.
Caught(c, message) == [c EXCEPT !.pc = "catch", !.error = message]

\* prisma.spriteGeneration.findUnique, before the try block.
RunLoad(p, dbFails) ==
  /\ ctl[p].pc = "load"
  /\ ctl' = [ctl EXCEPT ![p] =
       IF dbFails THEN Escape(p, "Can't reach database server")
       ELSE IF db[ctl[p].gen].status = "NONE" THEN Escape(p, "Generation record not found")
       ELSE [ctl[p] EXCEPT !.pc = "mark",
                           !.requestedModel = db[ctl[p].gen].modelVersion,
                           !.promptForAttempt = db[ctl[p].gen].prompt]]
  /\ UNCHANGED <<call, env, db, cache, s3, queue, clock, req, rd, issued, hist>>

\* The update to PROCESSING, before the try block, and the locals of the run.
RunMarkProcessing(p, dbFails) ==
  /\ ctl[p].pc = "mark"
  /\ LET g == ctl[p].gen
     IN IF dbFails \/ db[g].status = "NONE"
        THEN /\ ctl' = [ctl EXCEPT ![p] = Escape(p, "Can't reach database server")]
             /\ UNCHANGED <<db, hist>>
        ELSE /\ db' = [db EXCEPT ![g] = Touch([@ EXCEPT !.status = "PROCESSING",
                                                        !.errorReason = NullReason])]
             /\ ctl' = [ctl EXCEPT ![p] =
                  [@ EXCEPT !.pc = "loop",
                            !.activeModel = ctl[p].requestedModel,
                            !.maxAttempts = AttemptCeiling(ctl[p].requestedModel,
                                                           env.QUALITY_MAX_ATTEMPTS),
                            !.remainingBudgetUsd = env.MAX_ESTIMATED_GENERATION_COST_USD]]
             /\ hist' = [hist EXCEPT ![g].defects = <<>>]
  /\ UNCHANGED <<call, env, cache, s3, queue, clock, req, rd, issued>>

\* ---------------------------------------------------------- backend adapter
\* What one images.generate call answers: "ok", or the class of its error.

mapOpenAiError(reply) ==
  CASE reply = "insufficient_quota" -> "OpenAI billing limit reached. Add credits and retry."
    [] reply = "403-verification" ->
         "Model access is pending organization verification propagation."
    [] reply = "401" -> "OpenAI authentication failed. Check OPENAI_API_KEY."
    [] reply = "429" -> "OpenAI rate limit reached. Please retry shortly."
    [] OTHER -> "OpenAI image generation failed"

\* The fallback on every error.
shouldFallbackOnAnyError(modelUsed, reply) ==
  modelUsed # MODEL_ACCESS_FALLBACK /\ reply # "ok"

shouldFallback(modelUsed, reply) ==
  modelUsed # MODEL_ACCESS_FALLBACK /\ reply \in {"403-verification", "500"}

\* generateRawImage up to the response: the model is called, and once more on
\* the fallback model after a recoverable error.
generateRawImage(model, first, second) ==
  LET one == <<[model |-> model, reply |-> first]>>
      two == one \o <<[model |-> MODEL_ACCESS_FALLBACK, reply |-> second]>>
  IN IF first = "ok"
     THEN [threw |-> FALSE, modelUsed |-> model, calls |-> 1, message |-> "", requests |-> one]
     ELSE IF ~shouldFallback(model, first)
     THEN [threw |-> TRUE, modelUsed |-> model, calls |-> 1, message |-> mapOpenAiError(first),
           requests |-> one]
     ELSE IF second = "ok"
     THEN [threw |-> FALSE, modelUsed |-> MODEL_ACCESS_FALLBACK, calls |-> 2, message |-> "",
           requests |-> two]
     ELSE [threw |-> TRUE, modelUsed |-> MODEL_ACCESS_FALLBACK, calls |-> 2,
           message |-> mapOpenAiError(second), requests |-> two]

\* The token-usage triple from the usage counters the backend reported (-1: a
\* counter it did not report) and the estimate of the prompt.
tokenUsageFrom(usage, fallbackPromptTokens) ==
  LET inputTokens == IF usage.prompt_tokens > 0 THEN usage.prompt_tokens ELSE fallbackPromptTokens
      outputTokens == IF usage.completion_tokens > 0 THEN usage.completion_tokens ELSE 0
      finalOutputTokens ==
        IF outputTokens > 0 THEN outputTokens
        ELSE Max(0, IF usage.total_tokens # -1 /\ usage.total_tokens >= inputTokens
                    THEN usage.total_tokens - inputTokens ELSE 0)
  IN [inputTokens |-> inputTokens, outputTokens |-> finalOutputTokens,
      totalTokens |-> IF usage.total_tokens # -1 THEN usage.total_tokens
                      ELSE inputTokens + finalOutputTokens]

\* Only the first of the two budget checks.
BudgetBlocksWhenExhausted(c, generation) == c.remainingBudgetUsd <= 0

\* The two budget checks at the head of an iteration.
BudgetBlocks(c, generation) ==
  LET prompt == replaceSeedLine(c.promptForAttempt,
                                attemptSeedForAttempt(generation.seed, c.gen, c.attempt + 1))
      attemptCost ==
        buildAttemptCostEstimate(c.activeModel, PromptLength(prompt),
                                 estimateOutputTokens(generation.spriteSize, generation.columns,
                                                      generation.rows))
  IN c.remainingBudgetUsd <= 0 \/ attemptCost > c.remainingBudgetUsd

\* The stall test without the comparison of the signatures.
isStalledOnAnySignature(c, candidate, isFailure, attempt) ==
  /\ isFailure
  /\ attempt > 1
  /\ c.hasLastFailure
  /\ candidate.qualityScore <= c.lastFailureScore + 75

\* isStalled: a failure after the first attempt whose signature is that of
\* the last failure and whose quality score is at most 0.75 above its score
\* (lastFailureSignature is null, and equal to no signature, after a success).
isStalled(c, candidate, isFailure, attempt) ==
  /\ isFailure
  /\ attempt > 1
  /\ c.hasLastFailure
  /\ c.lastFailureSignature = candidate.warningSignature
  /\ candidate.qualityScore <= c.lastFailureScore + 75

\* The failures of the settings verifier that name the non-empty frames.
NonEmptyFramesFailures == {"only 3 non-empty frames detected for requested 4 frames"}

\* missingFrameWarning: the scorer counted an empty frame or the verifier
\* missed a non-empty one.
missingFrameWarning(an) ==
  \/ an.emptyFrameCount > 0
  \/ \E i \in 1 .. Len(an.failures) : an.failures[i] \in NonEmptyFramesFailures

\* shouldUseRepairedAttempt, from the ranked score, the verdict of the
\* verifier and the count of empty frames of the original and the repaired
\* sheet.
shouldUseRepairedAttempt(original, repaired) ==
  \/ repaired.score > original.score
  \/ repaired.passed /\ ~original.passed
  \/ repaired.emptyFrameCount < original.emptyFrameCount

\* An attempt that is never accepted.
attemptAcceptedNever(qualityOk, settingsPassed) == FALSE

\* `if (attemptQualityResult.ok && attemptSettingsVerification.passed)`
attemptAccepted(qualityOk, settingsPassed) == qualityOk /\ settingsPassed

\* One iteration of the attempt loop, from the budget checks to the choice of
\* the next prompt.  `an` is what the pixel pipeline (normalise, clarify,
\* stabilise, repair, score, verify) found in the image of this attempt.
AttemptStep(c, generation, first, second, usage, an, pipelineFails, dbFails) ==
  LET attempt == c.attempt + 1
      prompt == replaceSeedLine(c.promptForAttempt,
                                attemptSeedForAttempt(generation.seed, c.gen, attempt))
      estimatedOutputTokensPerAttempt ==
        estimateOutputTokens(generation.spriteSize, generation.columns, generation.rows)
      attemptCost == buildAttemptCostEstimate(c.activeModel, PromptLength(prompt),
                                              estimatedOutputTokensPerAttempt)
      c1 == [c EXCEPT !.attempt = attempt, !.attemptsExecuted = attempt,
                      !.promptForAttempt = prompt]
      raw == generateRawImage(c.activeModel, first, second)
      tokenUsage == tokenUsageFrom(usage, estimateTokens(PromptLength(prompt)))
      switched == raw.modelUsed # c.activeModel
      modelProfile == getModelProfile(raw.modelUsed)
      maxAttempts == IF switched THEN AttemptCeiling(raw.modelUsed, env.QUALITY_MAX_ATTEMPTS)
                     ELSE c.maxAttempts
      cost == estimateCostUsd(raw.modelUsed, tokenUsage.inputTokens, tokenUsage.outputTokens)
      c2 == [c1 EXCEPT !.backendAttempts = @ + 1, !.lastEstimate = attemptCost,
                       !.sentPrompt = prompt, !.requests = raw.requests,
                       !.lastCost = IF raw.threw THEN 0 ELSE cost,
                       !.consumed = @ + (IF raw.threw THEN 0 ELSE cost)]
      c3 == [c2 EXCEPT !.activeModel = raw.modelUsed, !.maxAttempts = maxAttempts]
      c4 == [c3 EXCEPT !.inputTokens = @ + tokenUsage.inputTokens,
                       !.outputTokens = @ + tokenUsage.outputTokens,
                       !.remainingBudgetUsd = Max(0, @ - cost)]
      qualityResult == validateSpriteQuality(an.reasons, an.penalised, env.QUALITY_MIN_SCORE)
      originalSettings == verifyImageAgainstRequestedSettings(an.failures)
      \* repairNearEmptyFrames changed a slot: the repaired sheet is stabilised,
      \* scored and verified as well
      repairRan == missingFrameWarning(an) /\ Len(an.repaired) > 0
      rp == an.repaired[1]
      repairedQualityResult ==
        validateSpriteQuality(rp.reasons, rp.penalised, env.QUALITY_MIN_SCORE)
      repairedSettings == verifyImageAgainstRequestedSettings(rp.failures)
      useRepaired ==
        /\ repairRan
        /\ shouldUseRepairedAttempt(
             [score |-> qualityResult.score + (IF originalSettings.passed THEN 0 ELSE -1800),
              passed |-> originalSettings.passed, emptyFrameCount |-> an.emptyFrameCount],
             [score |-> repairedQualityResult.score
                          + (IF repairedSettings.passed THEN 0 ELSE -1800),
              passed |-> repairedSettings.passed, emptyFrameCount |-> rp.emptyFrameCount])
      quality == IF useRepaired THEN repairedQualityResult ELSE qualityResult
      settings == IF useRepaired THEN repairedSettings ELSE originalSettings
      attemptWarnings == dedupeWarnings(quality.reasons \o settings.failures)
      candidate ==
        [attempt |-> attempt, buffer |-> attempt, qualityWarnings |-> attemptWarnings,
         qualityOk |-> quality.ok, settingsVerification |-> settings,
         score |-> quality.score + (IF settings.passed THEN 0 ELSE -1800),
         warningSignature |-> buildWarningSignature(attemptWarnings),
         qualityScore |-> quality.score, frameRepair |-> useRepaired]
      bestCandidate ==
        IF c.bestCandidate.attempt = 0 \/ candidateRank(candidate) > candidateRank(c.bestCandidate)
        THEN candidate ELSE c.bestCandidate
      isFailure == ~quality.ok \/ ~settings.passed
      stalled == isStalled(c, candidate, isFailure, attempt)
      failureStallCount == IF isFailure /\ stalled THEN c.failureStallCount + 1 ELSE 0
      c5 == [c4 EXCEPT !.bestCandidate = bestCandidate,
                       !.candidates = Append(@, candidate), !.analysed = Append(@, an),
                       !.failureStallCount = failureStallCount,
                       !.hasLastFailure = isFailure,
                       !.lastFailureSignature = IF isFailure THEN candidate.warningSignature ELSE {},
                       !.lastFailureScore = IF isFailure THEN candidate.qualityScore ELSE NegInf]
      stagnated == c.stopReason = "null" /\ stalled /\ failureStallCount >= 2
      succeeded == attemptAccepted(quality.ok, settings.passed)
  IN IF BudgetBlocks(c, generation)
     THEN [c1 EXCEPT !.pc = "final", !.stopReason = "token_budget", !.blockedAt = attempt]
     ELSE IF raw.threw THEN Caught(c2, raw.message)
     ELSE IF switched /\ dbFails THEN Caught(c3, "Can't reach database server")
     ELSE IF pipelineFails THEN Caught(c4, "Input buffer contains unsupported image format")
     ELSE IF stagnated THEN [c5 EXCEPT !.pc = "final", !.stopReason = "quality_stagnation"]
     ELSE IF succeeded
     THEN [c5 EXCEPT !.pc = "final", !.finalBuffer = attempt,
                     !.qualityWarnings = attemptWarnings,
                     !.settingsVerification = settings, !.successfulAttempt = attempt,
                     !.accepted = [attempt |-> attempt, ok |-> quality.ok,
                                   passed |-> settings.passed, score |-> quality.score,
                                   best |-> bestCandidate.attempt = attempt]]
     ELSE IF attempt < maxAttempts
     THEN [c5 EXCEPT !.promptForAttempt =
                       buildQualityCorrectionPrompt(attemptWarnings, modelProfile.compactPrompt,
                                                    modelProfile.correctionIssueLimit)]
     ELSE [c5 EXCEPT !.pc = "final"]

\* ------------------------------------------------------ images and usage
NoUsage == [prompt_tokens |-> -1, completion_tokens |-> -1, total_tokens |-> -1]
LargeUsage == [prompt_tokens |-> 400, completion_tokens |-> 9000, total_tokens |-> 9400]

\* No defect, the settings met.
CleanImage ==
  [reasons |-> <<>>, penalised |-> 9000 * ScoreUnit, failures |-> <<>>, emptyFrameCount |-> 0,
   repaired |-> <<>>]
\* A defect at a score above the minimum, the settings met.
DriftImage ==
  [reasons |-> <<"Anchor drift too high">>, penalised |-> 8800 * ScoreUnit, failures |-> <<>>,
   emptyFrameCount |-> 0, repaired |-> <<>>]
\* A defect at a score below the minimum, the settings not met; no frame has
\* enough pixels to be the donor of a repair.
EmptyFrameImage ==
  [reasons |-> <<"Empty frames detected">>, penalised |-> 7000 * ScoreUnit,
   failures |-> <<"only 3 non-empty frames detected for requested 4 frames">>,
   emptyFrameCount |-> 1, repaired |-> <<>>]

\* A sheet of four frames with every pixel opaque: no transparent pixel, the
\* outer edges and the inner boundaries filled, every frame overcrowded and
\* touching its edges; the settings ask for transparency.
OpaqueMetrics ==
  [hasDimensionMismatch |-> FALSE, hasTransparency |-> FALSE, transparentPixelRatio |-> 0,
   translucentPixelRatio |-> 0, outerEdgeOpaqueRatio |-> 10000,
   maxBoundaryBleedRatio |-> 10000, emptyFrameCount |-> 0, overcrowdedFrameCount |-> 4,
   clippedFrameCount |-> 4, analyzedFrameCount |-> 4, meanConsecutiveFrameDelta |-> 150]
OpaqueImage ==
  [reasons |-> qualityReasons(OpaqueMetrics, QualityThresholds(8500)),
   penalised |-> penalisedScore(OpaqueMetrics, QualityThresholds(8500)),
   failures |-> <<"image is not RGBA transparent as requested">>,
   emptyFrameCount |-> OpaqueMetrics.emptyFrameCount, repaired |-> <<>>]

\* One iteration of the attempt loop.  The inputs are the backend's replies
\* to the first and to the fallback call, the usage it reports, what the
\* analysis finds in the image, and which of the steps fails; an input is
\* drawn only where the iteration reads it.
RunAttempt(p, replies, usages, analyses) ==
  /\ ctl[p].pc = "loop"
  /\ LET g == ctl[p].gen
         blocked == BudgetBlocks(ctl[p], db[g])
     IN \E first \in (IF blocked THEN {"ok"} ELSE replies) :
        \E second \in (IF shouldFallback(ctl[p].activeModel, first) THEN replies ELSE {"ok"}) :
          LET raw == generateRawImage(ctl[p].activeModel, first, second)
              quiet == blocked \/ raw.threw
              switched == raw.modelUsed # ctl[p].activeModel
          IN \E usage \in (IF quiet THEN {NoUsage} ELSE usages),
                dbFails \in (IF ~quiet /\ switched THEN BOOLEAN ELSE {FALSE}) :
             \E pipelineFails \in (IF quiet \/ dbFails THEN {FALSE} ELSE BOOLEAN) :
             \E an \in (IF quiet \/ dbFails \/ pipelineFails THEN {CleanImage} ELSE analyses) :
               LET next == AttemptStep(ctl[p], db[g], first, second, usage, an,
                                       pipelineFails, dbFails)
                   called == ~blocked
                   persisted == called /\ ~raw.threw /\ switched /\ ~dbFails
               IN /\ ctl' = [ctl EXCEPT ![p] = next]
                  /\ db' = IF persisted
                           THEN [db EXCEPT ![g] = Touch([@ EXCEPT !.modelVersion = raw.modelUsed])]
                           ELSE db
                  /\ hist' = [hist EXCEPT
                                ![g].backendCalls = @ + (IF called THEN raw.calls ELSE 0),
                                ![g].defects = next.bestCandidate.qualityWarnings]
  /\ UNCHANGED <<call, env, cache, s3, queue, clock, req, rd, issued>>

\* The fallback decision without the strict-gate test.
canAcceptFallbackAnyGate(c) ==
  /\ c.bestCandidate.attempt # 0
  /\ c.bestCandidate.settingsVerification.passed
  /\ c.bestCandidate.qualityScore >= env.QUALITY_MIN_SCORE

\* After the loop: the non-strict fallback, the FAILED update of a rejected
\* generation, or the way on to the upload.
canAcceptFallback(c) ==
  /\ ~env.STRICT_QUALITY_GATE
  /\ c.bestCandidate.attempt # 0
  /\ c.bestCandidate.settingsVerification.passed
  /\ c.bestCandidate.qualityScore >= env.QUALITY_MIN_SCORE

\* The failure warnings without the note of the stop reason.
FailureWarningsWithoutNote(c) ==
  dedupeWarnings(IF c.bestCandidate.attempt # 0 THEN c.bestCandidate.qualityWarnings
                 ELSE <<"Generation stopped after attempts">>)

FailureWarnings(c) ==
  LET base == dedupeWarnings(IF c.bestCandidate.attempt # 0 THEN c.bestCandidate.qualityWarnings
                             ELSE <<"Generation stopped after attempts">>)
  IN CASE c.stopReason = "token_budget" -> <<BudgetNote>> \o base
       [] c.stopReason = "quality_stagnation" -> <<StagnationNote>> \o base
       [] OTHER -> base

FailureSummary(c) ==
  LET failureVerification ==
        IF c.bestCandidate.attempt # 0 THEN c.bestCandidate.settingsVerification
        ELSE [passed |-> FALSE, summary |-> "Image does not meet requested settings.",
              failures |-> <<"No valid candidate produced by quality gate.">>]
  IN IF failureVerification.passed /\ Len(FailureWarnings(c)) > 0
     THEN "Quality gate rejected output after attempts"
     ELSE failureVerification.summary

\* The locals after the `if (!finalBuffer)` block when the fallback is taken.
FallbackAccepted(c) ==
  [c EXCEPT !.finalBuffer = c.bestCandidate.buffer,
            !.qualityWarnings = dedupeWarnings(c.bestCandidate.qualityWarnings
                                  \o <<"Accepted best attempt with strict gate disabled">>),
            !.settingsVerification = c.bestCandidate.settingsVerification,
            !.successfulAttempt = c.bestCandidate.attempt,
            !.accepted = [attempt |-> c.bestCandidate.attempt, ok |-> c.bestCandidate.qualityOk,
                          passed |-> c.bestCandidate.settingsVerification.passed,
                          score |-> c.bestCandidate.qualityScore, best |-> TRUE]]

RunFinalize(p, dbFails) ==
  /\ ctl[p].pc = "final"
  /\ LET c == ctl[p]
         g == c.gen
         rejected == c.finalBuffer = 0 /\ ~canAcceptFallback(c)
         c1 == IF c.finalBuffer = 0 /\ canAcceptFallback(c) THEN FallbackAccepted(c) ELSE c
     IN IF rejected \/ ~c1.settingsVerification.passed
        THEN IF dbFails
             THEN /\ ctl' = [ctl EXCEPT ![p] = Caught(c1, "Can't reach database server")]
                  /\ db' = db
             ELSE /\ db' = [db EXCEPT ![g] = Touch(
                       [@ EXCEPT !.status = "FAILED", !.promptTokens = c1.inputTokens,
                                 !.qualityWarnings =
                                    IF rejected THEN FailureWarnings(c)
                                    ELSE dedupeWarnings(c1.qualityWarnings
                                           \o c1.settingsVerification.failures),
                                 !.errorReason = IF rejected THEN FailureSummary(c)
                                                 ELSE c1.settingsVerification.summary])]
                  /\ ctl' = [ctl EXCEPT ![p] = [c1 EXCEPT !.pc = "returned", !.outcome = "failed"]]
        ELSE /\ ctl' = [ctl EXCEPT ![p] = [c1 EXCEPT !.pc = "upload"]]
             /\ db' = db
  /\ UNCHANGED <<call, env, cache, s3, queue, clock, req, rd, issued, hist>>

\* An upload that stores nothing.
uploadImageNowhere(store, imageKey) == store

\* uploadImage puts the object under its key.
uploadImage(store, imageKey) == store \cup {imageKey}

\* uploadImage(imageKey, finalBuffer, "image/png")
RunUpload(p, fails) ==
  /\ ctl[p].pc = "upload"
  /\ IF fails
     THEN /\ ctl' = [ctl EXCEPT ![p] = Caught(@, "Image upload failed")]
          /\ s3' = s3
          /\ hist' = hist
     ELSE /\ ctl' = [ctl EXCEPT ![p].pc = "complete"]
          /\ s3' = uploadImage(s3, ctl[p].gen)
          /\ hist' = [hist EXCEPT ![ctl[p].gen].uploadedBuffer = ctl[p].finalBuffer]
  /\ UNCHANGED <<call, env, db, cache, queue, clock, req, rd, issued>>

\* The update to COMPLETED with the image key, the JSON export and the warnings.
RunComplete(p, dbFails) ==
  /\ ctl[p].pc = "complete"
  /\ LET g == ctl[p].gen
     IN IF dbFails
        THEN /\ ctl' = [ctl EXCEPT ![p] = Caught(@, "Can't reach database server")]
             /\ UNCHANGED <<db, hist>>
        ELSE /\ db' = [db EXCEPT ![g] = Touch(
                  [@ EXCEPT !.status = "COMPLETED", !.imageKey = TRUE, !.jsonConfig = TRUE,
                            !.qualityWarnings = ctl[p].qualityWarnings,
                            !.promptTokens = ctl[p].inputTokens,
                            !.errorReason = NullReason])]
             /\ hist' = [hist EXCEPT ![g].accepted = ctl[p].accepted]
             /\ ctl' = [ctl EXCEPT ![p].pc = "register"]
  /\ UNCHANGED <<call, env, cache, s3, queue, clock, req, rd, issued>>

\* redis.set of the completed row's fingerprint.
RunRegister(p, fails) ==
  /\ ctl[p].pc = "register"
  /\ LET g == ctl[p].gen
         completed == db[g]
     IN IF fails
        THEN /\ ctl' = [ctl EXCEPT ![p] = Caught(@, "Redis connection is closed")]
             /\ cache' = cache
        ELSE /\ cache' = redisSet(
                  fingerprintForGeneration(completed.userId, completed.themeLen,
                     completed.spriteSize, completed.frameCount, completed.columns,
                     completed.rows, IF completed.seed = -1 THEN 0 ELSE completed.seed,
                     completed.modelVersion, completed.animationType), g)
             /\ ctl' = [ctl EXCEPT ![p].pc = "hydrate"]
  /\ UNCHANGED <<call, env, db, s3, queue, clock, req, rd, issued, hist>>

\* `return hydrateGenerationResponse(completed)`: the promise is returned from
\* inside the try block without being awaited, so its rejection passes the
\* catch block by.
RunReturn(p, fails) ==
  /\ ctl[p].pc = "hydrate"
  /\ ctl' = [ctl EXCEPT ![p] = IF fails THEN Escape(p, "Could not sign image URL")
                               ELSE [@ EXCEPT !.pc = "returned", !.outcome = "completed"]]
  /\ UNCHANGED <<call, env, db, cache, s3, queue, clock, req, rd, issued, hist>>

\* The catch block: the FAILED update, then the error is thrown again.
RunCatch(p, dbFails) ==
  /\ ctl[p].pc = "catch"
  /\ LET g == ctl[p].gen
     IN IF dbFails
        THEN /\ ctl' = [ctl EXCEPT ![p] = Escape(p, "Can't reach database server")]
             /\ db' = db
        ELSE /\ db' = [db EXCEPT ![g] = Touch(
                  [@ EXCEPT !.status = "FAILED", !.promptTokens = ctl[p].inputTokens,
                            !.qualityWarnings = ctl[p].qualityWarnings,
                            !.errorReason = ctl[p].error])]
             /\ ctl' = [ctl EXCEPT ![p].pc = "threw"]
  /\ UNCHANGED <<call, env, cache, s3, queue, clock, req, rd, issued, hist>>

\* ---------------------------------------------------------------- read path
\* markStaleGenerationFailed decides on the row it was handed.
IsStale(row) ==
  /\ row.status \in {"PENDING", "PROCESSING"}
  /\ clock * ClockStepMs - row.updatedAt > STALE_GENERATION_MS

\* getGenerationById: findFirst, then markStaleGenerationFailed starts its
\* update when the row it read is in progress and stale.
GetGenerationById(g, userId) ==
  /\ db[g].status # "NONE"
  /\ db[g].userId = userId
  /\ IsStale(db[g])
  /\ g \notin rd
  /\ rd' = rd \cup {g}
  /\ UNCHANGED <<call, env, db, cache, s3, queue, clock, req, ctl, issued, hist>>

\* listGenerationsForUser: findMany, then markStaleGenerationFailed on every
\* row at once (Promise.all), each update reaching the database on its own.
ListGenerationsForUser(userId) ==
  LET stale == {g \in GenIds : db[g].status # "NONE" /\ db[g].userId = userId /\ IsStale(db[g])}
  IN /\ stale \ rd # {}
     /\ rd' = rd \cup stale
     /\ UNCHANGED <<call, env, db, cache, s3, queue, clock, req, ctl, issued, hist>>

\* The update markStaleGenerationFailed issued reaches the database.
MarkStaleUpdate(g) ==
  /\ g \in rd
  /\ rd' = rd \ {g}
  /\ db' = [db EXCEPT ![g] = Touch([@ EXCEPT !.status = "FAILED", !.errorReason = StaleReason])]
  /\ hist' = [hist EXCEPT ![g].staleFailed = TRUE]
  /\ UNCHANGED <<call, env, cache, s3, queue, clock, req, ctl, issued>>

Tick ==
  /\ clock < MaxClock
  /\ clock' = clock + 1
  /\ UNCHANGED <<call, env, db, cache, s3, queue, req, ctl, rd, issued, hist>>

Request(frameCount, seed, model) ==
  [userId |-> "u1", themeLen |-> 20, spriteSize |-> 64, frameCount |-> frameCount,
   layout |-> "row", columns |-> 0, seed |-> seed, model |-> model,
   animationType |-> PlainAnimation]

\* -------------------------------------------------------------- controller
\* Spec: one POST /sprite request and the inline run of processGeneration it
\* leads to, under every configuration of RunEnvs, with every step able to
\* fail.  The budgets are 0.00052620 USD (what the pre-check estimates for one
\* attempt of gpt-4o-mini on the request of RunInputs, and less than the
\* estimate of its first attempt, whose seed line is longer), 0.0025 USD (one
\* call at LargeUsage uses it up) and 10 USD (never reached).
RunEnvs ==
  {[STRICT_QUALITY_GATE |-> strict, QUALITY_MIN_SCORE |-> 8500, QUALITY_MAX_ATTEMPTS |-> n,
    MAX_ESTIMATED_GENERATION_COST_USD |-> budget, dailyGenerationLimit |-> 50] :
     strict \in BOOLEAN, n \in {1, 3}, budget \in {52620, 250000, 1000000000}}

RunInputs == {Request(4, 7, "gpt-4o-mini"), Request(4, 7, "gpt-image-1")}
RunReplies == {"ok", "500", "429"}
RunUsages == {NoUsage, LargeUsage}
RunAnalyses == {CleanImage, DriftImage, EmptyFrameImage}

Init == InitWith(RunEnvs) /\ call = NoCall

Next ==
  \/ \E input \in RunInputs : ReqLookup("h1", input, 1)
  \/ ReqCreate("h1")
  \/ ReqCacheSet("h1")
  \/ ReqRoute("h1")
  \/ \E dbFails \in BOOLEAN : RunLoad("h1", dbFails)
  \/ \E dbFails \in BOOLEAN : RunMarkProcessing("h1", dbFails)
  \/ RunAttempt("h1", RunReplies, RunUsages, RunAnalyses)
  \/ \E dbFails \in BOOLEAN : RunFinalize("h1", dbFails)
  \/ \E fails \in BOOLEAN : RunUpload("h1", fails)
  \/ \E dbFails \in BOOLEAN : RunComplete("h1", dbFails)
  \/ \E fails \in BOOLEAN : RunRegister("h1", fails)
  \/ \E fails \in BOOLEAN : RunReturn("h1", fails)
  \/ \E dbFails \in BOOLEAN : RunCatch("h1", dbFails)
  \/ RunEnd("h1")

Spec == Init /\ [][Next]_vars

\* ------------------------------------------------------------------- cache
\* SpecCache: two handlers of POST /sprite serving up to MaxRequests requests
\* of one user that differ in the seed only, each generation run inline with
\* a single attempt.
CacheEnvs ==
  {[STRICT_QUALITY_GATE |-> TRUE, QUALITY_MIN_SCORE |-> 8500, QUALITY_MAX_ATTEMPTS |-> 1,
    MAX_ESTIMATED_GENERATION_COST_USD |-> 1000000000, dailyGenerationLimit |-> 50]}

CacheInputs == {Request(4, 7, "gpt-image-1"), Request(4, 8, "gpt-image-1")}
CacheReplies == {"ok", "429"}
CacheUsages == {NoUsage}
CacheAnalyses == {CleanImage, EmptyFrameImage}

InitCache == InitWith(CacheEnvs) /\ call = NoCall

NextCache ==
  \/ \E h \in Handlers, input \in CacheInputs : ReqLookup(h, input, MaxRequests)
  \/ \E h \in Handlers : ReqCreate(h)
  \/ \E h \in Handlers : ReqCacheSet(h)
  \/ \E h \in Handlers : ReqRoute(h)
  \/ \E h \in Handlers : RunLoad(h, FALSE)
  \/ \E h \in Handlers : RunMarkProcessing(h, FALSE)
  \/ \E h \in Handlers : RunAttempt(h, CacheReplies, CacheUsages, CacheAnalyses)
  \/ \E h \in Handlers : RunFinalize(h, FALSE)
  \/ \E h \in Handlers : RunUpload(h, FALSE)
  \/ \E h \in Handlers : RunComplete(h, FALSE)
  \/ \E h \in Handlers : RunRegister(h, FALSE)
  \/ \E h \in Handlers : RunReturn(h, FALSE)
  \/ \E h \in Handlers : RunCatch(h, FALSE)
  \/ \E h \in Handlers : RunEnd(h)

SpecCache == InitCache /\ [][NextCache]_vars

\* ---------------------------------------------------------- queue and reads
\* SpecWatch: one queued generation, the worker that runs it and is handed
\* the job again after a failure, the clock, and the read path that records
\* stale generations as failed.
WatchEnvs == CacheEnvs
WatchInputs ==
  {Request(16, 7, "gpt-image-1"),
   [Request(16, 7, "gpt-image-1") EXCEPT !.animationType = SeedAnimation]}

WatchAnalyses == CacheAnalyses \cup {OpaqueImage}

InitWatch == InitWith(WatchEnvs) /\ call = NoCall

NextWatch ==
  \/ \E input \in WatchInputs : ReqLookup("h1", input, 1)
  \/ ReqCreate("h1")
  \/ ReqCacheSet("h1")
  \/ ReqRoute("h1")
  \/ Deliver("w1")
  \/ \E dbFails \in BOOLEAN : RunLoad("w1", dbFails)
  \/ \E dbFails \in BOOLEAN : RunMarkProcessing("w1", dbFails)
  \/ RunAttempt("w1", CacheReplies, CacheUsages, WatchAnalyses)
  \/ \E dbFails \in BOOLEAN : RunFinalize("w1", dbFails)
  \/ \E fails \in BOOLEAN : RunUpload("w1", fails)
  \/ \E dbFails \in BOOLEAN : RunComplete("w1", dbFails)
  \/ \E fails \in BOOLEAN : RunRegister("w1", fails)
  \/ \E fails \in BOOLEAN : RunReturn("w1", fails)
  \/ \E dbFails \in BOOLEAN : RunCatch("w1", dbFails)
  \/ RunEnd("w1")
  \/ \E g \in GenIds : GetGenerationById(g, "u1")
  \/ ListGenerationsForUser("u1")
  \/ \E g \in GenIds : MarkStaleUpdate(g)
  \/ Tick

SpecWatch == InitWatch /\ [][NextWatch]_vars

\* ------------------------------------------------------------------ claims
Terminal == {"COMPLETED", "FAILED"}
HasReason(row) == row.errorReason \notin {NullReason, ""}
Contains(seq, x) == \E i \in 1 .. Len(seq) : seq[i] = x

\* C1: the status of a generation never changes once it is COMPLETED or
\* FAILED, whatever runs, redeliveries, reads and errors follow.
C1_TerminalStatusImmutable ==
  [][\A g \in GenIds : db[g].status \in Terminal => db'[g].status = db[g].status]_vars

\* C2: a generation is COMPLETED only if the accepted attempt passed settings
\* verification and either its quality result was ok, or the strict gate is
\* off and it is the best candidate with a score of at least QUALITY_MIN_SCORE.
C2_CompletedOnlyIfAccepted ==
  \A g \in GenIds :
    db[g].status = "COMPLETED" =>
      LET a == hist[g].accepted
      IN /\ a.attempt # 0
         /\ a.passed
         /\ \/ a.ok
            \/ ~env.STRICT_QUALITY_GATE /\ a.best /\ a.score >= env.QUALITY_MIN_SCORE

\* A generation completed from an attempt whose quality result was not ok.
C2_CompletedByFallback ==
  \E g \in GenIds : db[g].status = "COMPLETED" /\ ~hist[g].accepted.ok /\ hist[g].accepted.passed

\* C3 as stated: a run calls the backend in at most
\* min(maxAttempts of the requested model's profile, QUALITY_MAX_ATTEMPTS)
\* attempts.
C3_CeilingOfRequestedModel ==
  \A p \in Procs :
    ctl[p].pc \notin {"idle", "load"} =>
      ctl[p].backendAttempts <= Min(getModelProfile(ctl[p].requestedModel).maxAttempts,
                                    Max(1, env.QUALITY_MAX_ATTEMPTS))

\* C3 amended: a run calls the backend in at most
\* min(maxAttempts of the active model's profile, QUALITY_MAX_ATTEMPTS)
\* attempts, the active model being the requested one until a model fallback
\* and gpt-image-1 after it.
C3_CeilingOfActiveModel ==
  \A p \in Procs :
    ctl[p].pc \notin {"idle", "load"} =>
      ctl[p].backendAttempts <= Min(getModelProfile(ctl[p].activeModel).maxAttempts,
                                    Max(1, env.QUALITY_MAX_ATTEMPTS))

\* A run that, after a model fallback, has made more attempts than the
\* requested model's ceiling allows.
C3_FallbackRaisedCeiling ==
  \E p \in Procs :
    /\ ctl[p].activeModel # ctl[p].requestedModel
    /\ ctl[p].backendAttempts > Min(getModelProfile(ctl[p].requestedModel).maxAttempts,
                                    Max(1, env.QUALITY_MAX_ATTEMPTS))

\* C4: the cost of all backend calls of a generation, at the reported usage
\* and the rates of the model used, exceeds MAX_ESTIMATED_GENERATION_COST_USD
\* by no more than the estimate made before one attempt.
C4_BudgetConservation ==
  \A p \in Procs :
    ctl[p].consumed <= env.MAX_ESTIMATED_GENERATION_COST_USD + ctl[p].lastEstimate

\* The budget checks at the head of the next attempt of p, as C5 states them.
C5_Blocked(p) ==
  LET c == ctl[p]
      generation == db[c.gen]
      prompt == replaceSeedLine(c.promptForAttempt,
                                attemptSeedForAttempt(generation.seed, c.gen, c.attempt + 1))
      tokens == estimateTokens(PromptLength(prompt))
      output == estimateOutputTokens(generation.spriteSize, generation.columns, generation.rows)
  IN \/ c.remainingBudgetUsd <= 0
     \/ estimateCostUsd(c.activeModel, tokens, output) > c.remainingBudgetUsd

\* C5: an attempt that starts with the budget used up, or with an estimate
\* above what remains, stops the loop with token_budget and calls no backend,
\* and no later step of the run does; a run stopped this way on its first
\* attempt returns with no backend call made, the generation FAILED and the
\* token-budget note as its first warning.
C5_BudgetStop ==
  [][\A p \in Procs :
       /\ (ctl[p].pc = "loop" /\ C5_Blocked(p) /\ ctl'[p] # ctl[p]) =>
            /\ ctl'[p].pc = "final"
            /\ ctl'[p].stopReason = "token_budget"
            /\ ctl'[p].backendAttempts = ctl[p].backendAttempts
            /\ hist'[ctl[p].gen].backendCalls = hist[ctl[p].gen].backendCalls
       /\ ctl[p].stopReason = "token_budget" =>
            /\ ctl'[p].backendAttempts <= ctl[p].backendAttempts
            /\ hist'[ctl[p].gen].backendCalls = hist[ctl[p].gen].backendCalls
       /\ (ctl[p].blockedAt = 1 /\ ctl[p].pc # "returned" /\ ctl'[p].pc = "returned") =>
            /\ ctl'[p].backendAttempts = 0
            /\ db'[ctl[p].gen].status = "FAILED"
            /\ Len(db'[ctl[p].gen].qualityWarnings) > 0
            /\ Head(db'[ctl[p].gen].qualityWarnings) = BudgetNote]_vars

\* A run that the budget stopped on its first attempt has returned.
C5_StoppedOnFirstAttempt ==
  \E p \in Procs :
    /\ ctl[p].pc = "returned"
    /\ ctl[p].blockedAt = 1
    /\ ctl[p].stopReason = "token_budget"
    /\ db[ctl[p].gen].status = "FAILED"

\* C6: when processGeneration throws, the generation is FAILED with an error
\* reason at that moment.
C6_FailedBeforeRaise ==
  [][\A p \in Procs :
       (ctl[p].pc # "threw" /\ ctl'[p].pc = "threw") =>
         /\ db'[ctl'[p].gen].status = "FAILED"
         /\ HasReason(db'[ctl'[p].gen])]_vars

\* C7: a FAILED generation has a non-empty errorReason and its
\* qualityWarnings hold every defect of the attempts that were executed.
C7_FailedCarriesDefects ==
  \A g \in GenIds :
    db[g].status = "FAILED" =>
      /\ HasReason(db[g])
      /\ \A i \in 1 .. Len(hist[g].defects) : Contains(db[g].qualityWarnings, hist[g].defects[i])

\* C8 as stated: a request that repeats an earlier one of the same user, seed
\* included, is answered cacheHit with the id of the earlier generation.
C8_RepeatServedFromCache ==
  \A h \in Handlers :
    req[h].priorId # NoGen =>
      /\ req[h].response = "cacheHit"
      /\ req[h].genId = req[h].priorId

\* C8 amended: a request whose fingerprint the cache maps to a generation of
\* the caller that is not FAILED is answered cacheHit with that id, creates no
\* row and starts no run; one that finds a FAILED generation is not served
\* from the cache; and a served generation has the seed of the request.
C8_ServedUnlessFailed ==
  \A h \in Handlers :
    /\ (req[h].seenId # NoGen /\ req[h].seenStatus \notin {"FAILED", "NONE"}) =>
         /\ req[h].response = "cacheHit"
         /\ req[h].genId = req[h].seenId
         /\ req[h].pc = "idle"
         /\ ctl[h].pc = "idle"
    /\ req[h].seenStatus = "FAILED" => req[h].response # "cacheHit"
    /\ req[h].response = "cacheHit" => db[req[h].genId].seed = req[h].input.seed

\* A request that repeats an earlier one was served the earlier generation.
C8_RepeatServed ==
  \E h \in Handlers :
    /\ req[h].response = "cacheHit"
    /\ req[h].priorId # NoGen
    /\ req[h].genId = req[h].priorId

\* C9: two createGenerationRequest calls under way with the same fingerprint
\* have not both created a generation.
C9_OneRecordPerFingerprint ==
  \A a, b \in Handlers :
    (/\ a # b
     /\ req[a].pc = "setcache"
     /\ req[b].pc = "setcache"
     /\ InputFingerprint(req[a].input) = InputFingerprint(req[b].input))
      => req[a].genId = req[b].genId

\* C10: the read path records as FAILED only a generation that is PENDING or
\* PROCESSING, and once it has, no run calls the backend for the generation
\* or changes its status.
C10_StaleFailedIsFinal ==
  [][\A g \in GenIds :
       /\ (~hist[g].staleFailed /\ hist'[g].staleFailed) =>
            db[g].status \in {"PENDING", "PROCESSING"}
       /\ hist[g].staleFailed =>
            /\ hist'[g].backendCalls = hist[g].backendCalls
            /\ db'[g].status = db[g].status]_vars

\* The note C11 expects in front of the defect list of a run of p.
C11_StopNote(c) ==
  CASE c.stopReason = "token_budget" -> <<BudgetNote>>
    [] c.stopReason = "quality_stagnation" -> <<StagnationNote>>
    [] OTHER -> <<>>

\* C11: a run whose loop ended with no successful attempt returns with the
\* generation COMPLETED exactly when the strict gate is off and the best
\* candidate passed settings verification at a score of at least
\* QUALITY_MIN_SCORE, its warnings then carrying the acceptance note; otherwise
\* it returns with the generation FAILED and, as warnings, the note of the
\* stop reason (token_budget, quality_stagnation) followed by the best
\* candidate's defects, or by the synthetic defect when there is no candidate.
C11_FinalizationDecision ==
  [][\A p \in Procs :
       (ctl[p].pc # "returned" /\ ctl'[p].pc = "returned" /\ ~ctl'[p].accepted.ok) =>
         LET c == ctl'[p]
             row == db'[c.gen]
             best == c.bestCandidate
             acceptable == /\ ~env.STRICT_QUALITY_GATE
                           /\ best.attempt # 0
                           /\ best.settingsVerification.passed
                           /\ best.qualityScore >= env.QUALITY_MIN_SCORE
         IN /\ row.status = "COMPLETED" <=> acceptable
            /\ acceptable =>
                 Contains(row.qualityWarnings, "Accepted best attempt with strict gate disabled")
            /\ ~acceptable =>
                 /\ row.status = "FAILED"
                 /\ row.qualityWarnings =
                      C11_StopNote(c) \o dedupeWarnings(
                        IF best.attempt # 0 THEN best.qualityWarnings
                        ELSE <<"Generation stopped after attempts">>)]_vars

\* A run stopped for stagnation has returned with the generation FAILED.
C11_RejectedAfterStagnation ==
  \E p \in Procs :
    /\ ctl[p].pc = "returned"
    /\ ctl[p].stopReason = "quality_stagnation"
    /\ ctl[p].bestCandidate.attempt # 0
    /\ db[ctl[p].gen].status = "FAILED"
    /\ Head(db[ctl[p].gen].qualityWarnings) = StagnationNote

\* ---------------------------------------------------------- completed record
\* C12 as stated: the cache maps a fingerprint to an id only after the record
\* of that id was completed (a record keeps its image key once completed).
C12_RegisteredOnlyAfterCompleted ==
  \A e \in cache : db[e[2]].imageKey

\* C12 amended: a COMPLETED record has its image in the store, its image key
\* and its JSON export; the step that makes a record COMPLETED finds the image
\* already uploaded and writes key and export in that same update; and
\* processGeneration writes its cache entry only for a COMPLETED record.
C12_CompletedHasImage ==
  [][/\ \A g \in GenIds :
          /\ db'[g].status = "COMPLETED" => g \in s3' /\ db'[g].imageKey /\ db'[g].jsonConfig
          /\ (db[g].status # "COMPLETED" /\ db'[g].status = "COMPLETED") =>
                g \in s3 /\ ~db[g].jsonConfig /\ db'[g].jsonConfig /\ db'[g].imageKey
     /\ \A p \in Procs :
          (ctl[p].pc = "register" /\ cache' # cache) =>
             db[ctl[p].gen].status = "COMPLETED" /\ ctl[p].gen \in s3
    ]_vars

\* A run has completed its record and registered it under the fingerprint of
\* the model that produced the image.
C12_CompletedAndRegistered ==
  \E p \in Procs :
    /\ ctl[p].pc = "hydrate"
    /\ db[ctl[p].gen].status = "COMPLETED"
    /\ ctl[p].gen \in s3
    /\ \E e \in cache : e[2] = ctl[p].gen /\ e[1][8] = db[ctl[p].gen].modelVersion

\* ---------------------------------------------------------------- the seeds
\* C13: every run of a generation id starts before attempt 1 with the prompt
\* of the record and the whole budget, and every prompt it sends carries the
\* seed derived from (generation id, base seed, attempt index) on exactly one
\* seed line.
C13_RunsReplaySeedOnOneLine ==
  [][\A p \in Procs :
       LET g == ctl[p].gen
       IN /\ (ctl[p].pc = "mark" /\ ctl'[p].pc = "loop") =>
               /\ ctl'[p].attempt = 0
               /\ ctl'[p].promptForAttempt = db[g].prompt
               /\ ctl'[p].remainingBudgetUsd = env.MAX_ESTIMATED_GENERATION_COST_USD
          /\ ctl'[p].backendAttempts > ctl[p].backendAttempts =>
               /\ ctl'[p].sentPrompt.seed =
                    attemptSeedForAttempt(db[g].seed, g, ctl'[p].attempt)
               /\ ctl'[p].sentPrompt.seedLines = 1
    ]_vars

\* ------------------------------------------------------------------ layout
\* SpecLayout: resolveLayout called once on each request the schema accepts:
\* frameCount 1..64, layout row or grid, columns absent (0) or 1..64.
MaxFrameCount == 64
MaxColumns == 64
PureEnvs == {CHOOSE e \in RunEnvs : TRUE}

InitLayout ==
  /\ InitWith(PureEnvs)
  /\ call \in [fn : {"resolveLayout"}, frameCount : 1 .. MaxFrameCount,
               layout : {"row", "grid"}, columns : 0 .. MaxColumns,
               returned : {FALSE}, result : {[columns |-> 0, rows |-> 0]}]

CallResolveLayout ==
  /\ call.fn = "resolveLayout"
  /\ ~call.returned
  /\ call' = [call EXCEPT !.returned = TRUE,
                          !.result = resolveLayout(call.frameCount, call.layout, call.columns)]
  /\ UNCHANGED program

NextLayout == CallResolveLayout

SpecLayout == InitLayout /\ [][NextLayout]_vars

\* C14: the resolved layout holds every frame: frameCount <= columns x rows;
\* row layout gives frameCount columns in one row; grid layout gives the
\* supplied columns, or the least k with k * k >= frameCount, and the least
\* number of rows that holds the frames; 10 frames in a grid without columns
\* resolve to 4 x 3.
C14_LayoutHoldsFrames ==
  (call.fn = "resolveLayout" /\ call.returned) =>
    LET n == call.frameCount
        r == call.result
    IN /\ n <= r.columns * r.rows
       /\ call.layout = "row" => r.columns = n /\ r.rows = 1
       /\ call.layout = "grid" =>
            /\ call.columns # 0 => r.columns = call.columns
            /\ call.columns = 0 =>
                 r.columns * r.columns >= n /\ (r.columns - 1) * (r.columns - 1) < n
            /\ r.rows * r.columns >= n /\ (r.rows - 1) * r.columns < n
       /\ (n = 10 /\ call.layout = "grid" /\ call.columns = 0) => r.columns = 4 /\ r.rows = 3

\* Ten frames in a grid without columns have been resolved.
C14_TenFramesInGrid ==
  /\ call.fn = "resolveLayout" /\ call.returned
  /\ call.frameCount = 10 /\ call.layout = "grid" /\ call.columns = 0
  /\ call.result = [columns |-> 4, rows |-> 3]

\* ------------------------------------------------------ settings verifier
\* SpecVerify: verifyImageAgainstRequestedSettings called once on each small
\* sheet: up to MaxSheetSide pixels a side, every pixel with one of the alpha
\* values around the two tests (> 16 and < 255), against frames of 1 or 2
\* pixels a side in up to 2 x 2 slots.
MaxSheetSide == 2
MaxSlotsPerSide == 2
VerifyAlphas == {0, 16, 17, 255}
VerifyImages ==
  UNION {{[width |-> w, height |-> h, alpha |-> a] :
            a \in [(0 .. w - 1) \X (0 .. h - 1) -> VerifyAlphas]} :
         w \in 1 .. MaxSheetSide, h \in 1 .. MaxSheetSide}

InitVerify ==
  /\ InitWith(PureEnvs)
  /\ call \in [fn : {"verifyImageAgainstRequestedSettings"}, image : VerifyImages,
               spriteSize : 1 .. 2, frameCount : 1 .. 3,
               columns : 1 .. MaxSlotsPerSide, rows : 1 .. MaxSlotsPerSide,
               returned : {FALSE}, result : {verifyImageAgainstRequestedSettings(<<>>)}]

CallVerifyImage ==
  /\ call.fn = "verifyImageAgainstRequestedSettings"
  /\ ~call.returned
  /\ call' = [call EXCEPT
       !.returned = TRUE,
       !.result = verifyImageAgainstRequestedSettings(
                    SettingsFailures(call.image, call.spriteSize, call.frameCount,
                                     call.columns, call.rows))]
  /\ UNCHANGED program

NextVerify == CallVerifyImage

SpecVerify == InitVerify /\ [][NextVerify]_vars

\* Slot i of the sheet of the call holds a pixel with alpha above 16.
C15_SlotHasContent(i) ==
  \E xy \in DOMAIN call.image.alpha :
    /\ xy[1] \div call.spriteSize = i % call.columns
    /\ xy[2] \div call.spriteSize = i \div call.columns
    /\ call.image.alpha[xy] > 16

\* C15: passed is true exactly when the failures list is empty, and passed
\* implies the exact sheet size, content in each of the first frameCount
\* slots, no content in a slot beyond them, and a pixel with alpha below 255.
C15_PassedMeansSettingsMet ==
  (call.fn = "verifyImageAgainstRequestedSettings" /\ call.returned) =>
    /\ call.result.passed <=> call.result.failures = <<>>
    /\ call.result.passed =>
         /\ call.image.width = call.spriteSize * call.columns
         /\ call.image.height = call.spriteSize * call.rows
         /\ \A i \in 0 .. call.frameCount - 1 : C15_SlotHasContent(i)
         /\ \A i \in call.frameCount .. call.columns * call.rows - 1 : ~C15_SlotHasContent(i)
         /\ \E xy \in DOMAIN call.image.alpha : call.image.alpha[xy] < 255

\* A sheet of 2 x 2 slots with three frames requested has passed.
C15_PassedWithUnusedSlot ==
  /\ call.fn = "verifyImageAgainstRequestedSettings" /\ call.returned
  /\ call.result.passed
  /\ call.frameCount = 3 /\ call.columns = 2 /\ call.rows = 2

\* ------------------------------------------------------------------ scorer
\* SpecScore: validateSpriteQuality called once on the metrics of a sheet and
\* once on the same metrics with one defect more, under a minimum score of
\* 85 and one of 90.04.  The sheets are of the expected size; they have one
\* frame (no consecutive pair, mean delta 0) or four (mean delta 1.5%).
ScoreMinScores == {8500, 9004}
ScoreMetrics ==
  {[hasDimensionMismatch |-> FALSE, hasTransparency |-> t[1], transparentPixelRatio |-> t[2],
    translucentPixelRatio |-> l, outerEdgeOpaqueRatio |-> o, maxBoundaryBleedRatio |-> 8200,
    emptyFrameCount |-> e, overcrowdedFrameCount |-> 0, clippedFrameCount |-> c,
    analyzedFrameCount |-> f[1], meanConsecutiveFrameDelta |-> f[2]] :
     t \in {<<FALSE, 0>>, <<TRUE, 0>>, <<TRUE, 1499>>, <<TRUE, 1500>>, <<TRUE, 3000>>},
     l \in {0, 300}, o \in {0, 1500, 2500}, e \in {0, 5}, c \in {0, 6},
     f \in {<<1, 0>>, <<4, 150>>}}
RatioDefects == {"transparent", "translucent", "outerEdge", "boundaryBleed"}
FrameDefects == {"empty", "overcrowded", "clipped"}
DefectAmounts == {1, 600}

\* The metrics with one defect more: a ratio moved by `amount` ten-thousandths
\* to the worse, or one more frame of a defective kind.
AddDefect(metrics, defect, amount) ==
  CASE defect = "transparent" ->
         [metrics EXCEPT !.transparentPixelRatio = Max(0, @ - amount)]
    [] defect = "translucent" ->
         [metrics EXCEPT !.translucentPixelRatio = Min(10000, @ + amount)]
    [] defect = "outerEdge" ->
         [metrics EXCEPT !.outerEdgeOpaqueRatio = Min(10000, @ + amount)]
    [] defect = "boundaryBleed" ->
         [metrics EXCEPT !.maxBoundaryBleedRatio = Min(10000, @ + amount)]
    [] defect = "empty" -> [metrics EXCEPT !.emptyFrameCount = @ + 1]
    [] defect = "overcrowded" -> [metrics EXCEPT !.overcrowdedFrameCount = @ + 1]
    [] defect = "clipped" -> [metrics EXCEPT !.clippedFrameCount = @ + 1]

NoQuality == [ok |-> FALSE, reasons |-> <<>>, score |-> 0]

InitScore ==
  /\ InitWith(PureEnvs)
  /\ call \in {c \in [fn : {"validateSpriteQuality"}, metrics : ScoreMetrics,
                       minScore : ScoreMinScores, defect : RatioDefects \cup FrameDefects,
                       amount : DefectAmounts, returned : {FALSE},
                       result : {NoQuality}, worse : {NoQuality}] :
                  c.defect \in FrameDefects => c.amount = 1}

\* validateSpriteQuality from the metrics on: the reasons, the score, the tail.
ValidateMetrics(metrics, minScore) ==
  LET thresholds == QualityThresholds(minScore)
  IN validateSpriteQuality(qualityReasons(metrics, thresholds),
                           penalisedScore(metrics, thresholds), minScore)

CallValidateSpriteQuality ==
  /\ call.fn = "validateSpriteQuality"
  /\ ~call.returned
  /\ call' = [call EXCEPT
       !.returned = TRUE,
       !.result = ValidateMetrics(call.metrics, call.minScore),
       !.worse = ValidateMetrics(AddDefect(call.metrics, call.defect, call.amount),
                                 call.minScore)]
  /\ UNCHANGED program

NextScore == CallValidateSpriteQuality

SpecScore == InitScore /\ [][NextScore]_vars

\* The metrics of the call are under no threshold of a defect reason.
C16_NoDefect ==
  LET m == call.metrics
  IN /\ ~m.hasDimensionMismatch /\ m.hasTransparency
     /\ m.transparentPixelRatio >= 1500 /\ m.translucentPixelRatio <= 300
     /\ m.outerEdgeOpaqueRatio <= 1600 /\ m.maxBoundaryBleedRatio <= 8200
     /\ m.emptyFrameCount = 0 /\ m.overcrowdedFrameCount = 0 /\ m.clippedFrameCount = 0
     /\ (m.analyzedFrameCount > 1 => m.meanConsecutiveFrameDelta >= 100)

\* C16: ok is true exactly when the reasons list is empty and the score is at
\* least minScore; and a sheet on which no defect reason is recorded scores
\* at least minScore and is ok.
C16_DefectFreeIsOk ==
  (call.fn = "validateSpriteQuality" /\ call.returned) =>
    /\ call.result.ok <=> (call.result.reasons = <<>> /\ call.result.score >= call.minScore)
    /\ C16_NoDefect => call.result.score >= call.minScore /\ call.result.ok

\* --------------------------------------------------------- one defect more
\* C18: with the thresholds fixed, the score of the metrics with one defect
\* more (a lower transparent ratio, a higher translucent, outer-edge or
\* boundary-bleed ratio, one more empty, overcrowded or clipped frame, each
\* with the reason it brings) is at most the score of the metrics without it.
C18_DefectNeverRaisesScore ==
  (call.fn = "validateSpriteQuality" /\ call.returned) =>
    call.worse.score <= call.result.score

\* A sheet without a recorded reason, held at the minimum score by the floor,
\* has lost the floor to an added empty frame and scores less.
C18_DefectCrossedFloor ==
  /\ call.fn = "validateSpriteQuality" /\ call.returned
  /\ call.defect = "empty"
  /\ call.result.reasons = <<>> /\ call.result.score = call.minScore
  /\ call.worse.reasons # <<>> /\ call.worse.score < call.result.score

StabilizeSpriteSize == 32
StabilizeFrames == 3
MaxBoxLeft == 7
MaxBoxWidth == 3
StabilizeBoxes ==
  {NoBox} \cup
  {Box(x, x + w - 1, y[1], y[2]) :
     x \in 0 .. MaxBoxLeft, w \in 1 .. MaxBoxWidth, y \in {<<3, 4>>, <<2, 4>>}}
StabilizeSheets ==
  {sh \in [1 .. StabilizeFrames -> StabilizeBoxes] :
     /\ \A i \in 1 .. StabilizeFrames : sh[i].maxX < StabilizeSpriteSize
     /\ \A i, j \in 1 .. StabilizeFrames :
          (~sh[i].empty /\ ~sh[j].empty) => sh[i].minY = sh[j].minY}

InitStabilize ==
  /\ InitWith(PureEnvs)
  /\ call \in [fn : {"stabilizeSpriteSheet"}, sheet : StabilizeSheets,
               spriteSize : {StabilizeSpriteSize}, frameCount : {StabilizeFrames},
               applied : {0}, once : {<<>>}, twice : {<<>>}]

\* stabilizeSpriteSheet on the sheet.
CallStabilize ==
  /\ call.fn = "stabilizeSpriteSheet"
  /\ call.applied = 0
  /\ call' = [call EXCEPT
       !.applied = 1,
       !.once = stabilizeSpriteSheet(call.sheet, call.spriteSize, call.frameCount)]
  /\ UNCHANGED program

\* stabilizeSpriteSheet on its own output, with the same parameters.
CallStabilizeAgain ==
  /\ call.fn = "stabilizeSpriteSheet"
  /\ call.applied = 1
  /\ call' = [call EXCEPT
       !.applied = 2,
       !.twice = stabilizeSpriteSheet(call.once, call.spriteSize, call.frameCount)]
  /\ UNCHANGED program

NextStabilize == CallStabilize \/ CallStabilizeAgain

SpecStabilize == InitStabilize /\ [][NextStabilize]_vars

\* C19: the stabilizer applied to its own output moves no frame: the bounding
\* box of every frame is where the first application put it.
C19_SecondPassMovesNothing ==
  (call.fn = "stabilizeSpriteSheet" /\ call.applied = 2) =>
    \A i \in 1 .. Len(call.once) : call.twice[i] = call.once[i]

\* ------------------------------------------------------------- stagnation
\* SpecStall: one inline run of up to four attempts of gpt-image-1 in which
\* nothing throws and the budget is never reached; the images are clean,
\* have empty frames, or drift at a score of 88.0, 88.7 or 88.8.
StallEnvs ==
  {[STRICT_QUALITY_GATE |-> TRUE, QUALITY_MIN_SCORE |-> 8500, QUALITY_MAX_ATTEMPTS |-> 4,
    MAX_ESTIMATED_GENERATION_COST_USD |-> 1000000000, dailyGenerationLimit |-> 50]}
StallInputs == {Request(4, 7, "gpt-image-1")}
StallAnalyses ==
  {CleanImage, EmptyFrameImage, DriftImage,
   [DriftImage EXCEPT !.penalised = 8870 * ScoreUnit],
   [DriftImage EXCEPT !.penalised = 8880 * ScoreUnit]}

InitStall == InitWith(StallEnvs) /\ call = NoCall

NextStall ==
  \/ \E input \in StallInputs : ReqLookup("h1", input, 1)
  \/ ReqCreate("h1")
  \/ ReqCacheSet("h1")
  \/ ReqRoute("h1")
  \/ RunLoad("h1", FALSE)
  \/ RunMarkProcessing("h1", FALSE)
  \/ RunAttempt("h1", {"ok"}, {NoUsage}, StallAnalyses)
  \/ RunFinalize("h1", FALSE)
  \/ RunUpload("h1", FALSE)
  \/ RunComplete("h1", FALSE)
  \/ RunRegister("h1", FALSE)
  \/ RunReturn("h1", FALSE)
  \/ RunEnd("h1")

SpecStall == InitStall /\ [][NextStall]_vars

\* C20: in an iteration that scores its image, the stall counter goes up by
\* one exactly when the attempt failed, the attempt before it failed with the
\* same warning signature and the quality score is at most 0.75 above that
\* attempt's; otherwise it goes to 0.  The loop stops with quality_stagnation
\* exactly in an iteration that brings the counter to 2.
C20_StallCounter ==
  [][\A p \in Procs :
       LET c == ctl[p]
           d == ctl'[p]
           scored == d.backendAttempts > c.backendAttempts /\ d.pc # "catch"
           stall == /\ d.hasLastFailure
                    /\ c.hasLastFailure
                    /\ d.lastFailureSignature = c.lastFailureSignature
                    /\ d.lastFailureScore <= c.lastFailureScore + 75
           stops == c.stopReason # "quality_stagnation" /\ d.stopReason = "quality_stagnation"
       IN /\ scored =>
               /\ d.failureStallCount = (IF stall THEN c.failureStallCount + 1 ELSE 0)
               /\ stops <=> d.failureStallCount = 2
               /\ stops => d.pc = "final"
          /\ stops => scored
    ]_vars

\* The loop has stopped at its fourth attempt on the second stall in a row:
\* its second attempt did not stall.
C20_StoppedOnSecondStall ==
  \E p \in Procs :
    /\ ctl[p].pc = "final"
    /\ ctl[p].stopReason = "quality_stagnation"
    /\ ctl[p].failureStallCount = 2
    /\ ctl[p].attempt = 4

\* ---------------------------------------------------------------- ranking
\* SpecRank: one inline run of up to three attempts of gpt-image-1 in which
\* nothing throws and the budget is never reached, with the strict gate on or
\* off.  Next to the clean and the drifting image (88.0, one warning) the
\* images are: one of the same rank as the drifting image (88.5, two
\* warnings), one at the minimum score with four warnings, one just below the
\* minimum score (84.9), one that drifts at a score of 95.0 and so outranks
\* the clean image, and a defect-free one that misses the settings.
RankEnvs ==
  {[STRICT_QUALITY_GATE |-> strict, QUALITY_MIN_SCORE |-> 8500, QUALITY_MAX_ATTEMPTS |-> 3,
    MAX_ESTIMATED_GENERATION_COST_USD |-> 1000000000, dailyGenerationLimit |-> 50] :
     strict \in BOOLEAN}
RankInputs == {Request(4, 7, "gpt-image-1")}
TieImage ==
  [reasons |-> <<"Anchor drift too high", "Detected frames touching frame edges">>,
   penalised |-> 8850 * ScoreUnit, failures |-> <<>>, emptyFrameCount |-> 0, repaired |-> <<>>]
ManyWarningsImage ==
  [reasons |-> <<"Anchor drift too high", "Detected frames touching frame edges",
                 "Detected overcrowded frames", "Animation motion is too low">>,
   penalised |-> 8500 * ScoreUnit, failures |-> <<>>, emptyFrameCount |-> 0, repaired |-> <<>>]
LowScoreImage == [DriftImage EXCEPT !.penalised = 8490 * ScoreUnit]
HighScoreImage == [DriftImage EXCEPT !.penalised = 9500 * ScoreUnit]
SmallCanvasImage ==
  [reasons |-> <<>>, penalised |-> 9900 * ScoreUnit,
   failures |-> <<"image width 128px is below requested minimum 256px">>,
   emptyFrameCount |-> 0, repaired |-> <<>>]
RankAnalyses ==
  {CleanImage, DriftImage, TieImage, ManyWarningsImage, LowScoreImage, HighScoreImage,
   SmallCanvasImage}

InitRank == InitWith(RankEnvs) /\ call = NoCall

NextRank ==
  \/ \E input \in RankInputs : ReqLookup("h1", input, 1)
  \/ ReqCreate("h1")
  \/ ReqCacheSet("h1")
  \/ ReqRoute("h1")
  \/ RunLoad("h1", FALSE)
  \/ RunMarkProcessing("h1", FALSE)
  \/ RunAttempt("h1", {"ok"}, {NoUsage}, RankAnalyses)
  \/ RunFinalize("h1", FALSE)
  \/ RunUpload("h1", FALSE)
  \/ RunComplete("h1", FALSE)
  \/ RunRegister("h1", FALSE)
  \/ RunReturn("h1", FALSE)
  \/ RunEnd("h1")

SpecRank == InitRank /\ [][NextRank]_vars

\* C21: once a run has produced candidates, its best candidate is the
\* earliest of them whose rank (1000 if the settings passed, plus the quality
\* score, minus 0.5 per warning) is maximal: no candidate outranks it and
\* every candidate before it ranks strictly lower.
C21_BestIsEarliestOfMaximalRank ==
  \A p \in Procs :
    LET cands == ctl[p].candidates
        rank(k) == (IF cands[k].settingsVerification.passed THEN 100000 ELSE 0)
                     + cands[k].qualityScore - 50 * Len(cands[k].qualityWarnings)
    IN Len(cands) > 0 =>
         \E i \in 1 .. Len(cands) :
           /\ ctl[p].bestCandidate = cands[i]
           /\ \A j \in 1 .. Len(cands) : rank(j) <= rank(i)
           /\ \A j \in 1 .. i - 1 : rank(j) < rank(i)

\* A run whose best candidate is its first, a later candidate with other
\* warnings having reached exactly its rank.
C21_TieKeptEarlier ==
  \E p \in Procs :
    LET cands == ctl[p].candidates
    IN /\ Len(cands) >= 2
       /\ ctl[p].bestCandidate = cands[1]
       /\ \E j \in 2 .. Len(cands) :
            /\ cands[j].qualityWarnings # cands[1].qualityWarnings
            /\ candidateRank(cands[j]) = candidateRank(cands[1])

\* C22: once a run has an attempt whose quality result is ok and whose
\* settings verification passed, the run makes no further attempt and no
\* further backend call, and an upload it makes stores the buffer of the first
\* such attempt.
C22_AcceptedAttemptEndsLoop ==
  [][\A p \in Procs :
       LET c == ctl[p]
           d == ctl'[p]
           accepted == {i \in 1 .. Len(c.candidates) :
                          /\ c.candidates[i].qualityOk
                          /\ c.candidates[i].settingsVerification.passed}
           first == CHOOSE i \in accepted : \A j \in accepted : i <= j
       IN accepted # {} =>
            /\ d.gen = c.gen => /\ d.attempt = c.attempt
                                /\ d.backendAttempts = c.backendAttempts
                                /\ d.candidates = c.candidates
            /\ hist'[c.gen].backendCalls = hist[c.gen].backendCalls
            /\ (c.pc = "upload" /\ d.pc = "complete") =>
                 hist'[c.gen].uploadedBuffer = c.candidates[first].buffer
    ]_vars

\* The second attempt of a run was accepted and its buffer is stored, the
\* candidate of the first attempt ranking higher.
C22_StoredAcceptedNotBest ==
  \E p \in Procs :
    LET c == ctl[p]
    IN /\ c.pc = "register"
       /\ Len(c.candidates) = 2
       /\ c.candidates[2].qualityOk /\ c.candidates[2].settingsVerification.passed
       /\ c.bestCandidate = c.candidates[1]
       /\ hist[c.gen].uploadedBuffer = 2

\* ---------------------------------------------------------------- backend
\* SpecBackend: one inline run of up to three attempts on gpt-4o-mini or
\* gpt-image-1 in which the backend answers each call with an image or with
\* one of its errors: 403 with the verification phrasing, another 403, 401,
\* 429, 500, or a quota error; the update that persists a model switch can
\* fail.
BackendEnvs ==
  {[STRICT_QUALITY_GATE |-> TRUE, QUALITY_MIN_SCORE |-> 8500, QUALITY_MAX_ATTEMPTS |-> 3,
    MAX_ESTIMATED_GENERATION_COST_USD |-> 1000000000, dailyGenerationLimit |-> 50]}
BackendInputs == RunInputs
BackendReplies == {"ok", "403-verification", "403", "401", "429", "500", "insufficient_quota"}
BackendAnalyses == {CleanImage, DriftImage}

InitBackend == InitWith(BackendEnvs) /\ call = NoCall

NextBackend ==
  \/ \E input \in BackendInputs : ReqLookup("h1", input, 1)
  \/ ReqCreate("h1")
  \/ ReqCacheSet("h1")
  \/ ReqRoute("h1")
  \/ RunLoad("h1", FALSE)
  \/ RunMarkProcessing("h1", FALSE)
  \/ RunAttempt("h1", BackendReplies, {NoUsage, LargeUsage}, BackendAnalyses)
  \/ RunFinalize("h1", FALSE)
  \/ RunUpload("h1", FALSE)
  \/ RunComplete("h1", FALSE)
  \/ RunRegister("h1", FALSE)
  \/ RunReturn("h1", FALSE)
  \/ RunCatch("h1", FALSE)
  \/ RunEnd("h1")

SpecBackend == InitBackend /\ [][NextBackend]_vars

\* C23: an attempt calls the backend once or twice, first on the model the
\* attempt started with; it calls a second time only after a 403 with the
\* verification phrasing or a 5xx on a model other than gpt-image-1, and then
\* on gpt-image-1.  When its last call failed the run is in its catch block
\* with one of the typed errors, and from there the run makes no attempt and
\* no backend call.
C23_BackendCalls ==
  [][\A p \in Procs :
       LET c == ctl[p]
           d == ctl'[p]
           called == d.backendAttempts > c.backendAttempts
           log == d.requests
       IN /\ called =>
               /\ Len(log) \in {1, 2}
               /\ log[1].model = c.activeModel
               /\ Len(log) = 2 =>
                    /\ log[1].reply \in {"403-verification", "500"}
                    /\ c.activeModel # "gpt-image-1"
                    /\ c.requestedModel # "gpt-image-1"
                    /\ log[2].model = "gpt-image-1"
               /\ log[Len(log)].reply # "ok" =>
                    /\ d.pc = "catch"
                    /\ d.error \in
                         {"OpenAI billing limit reached. Add credits and retry.",
                          "Model access is pending organization verification propagation.",
                          "OpenAI authentication failed. Check OPENAI_API_KEY.",
                          "OpenAI rate limit reached. Please retry shortly.",
                          "OpenAI image generation failed"}
          /\ (c.pc \in {"catch", "threw"} /\ d.gen = c.gen) =>
               /\ d.pc \in {"catch", "threw"}
               /\ d.attempt = c.attempt
               /\ d.backendAttempts = c.backendAttempts
          /\ c.pc = "catch" => hist'[c.gen].backendCalls = hist[c.gen].backendCalls
    ]_vars

\* In its second attempt a run on gpt-4o-mini got a 500, called gpt-image-1
\* and got a 429; the run has thrown after two attempts.
C23_FallbackCallFailed ==
  \E p \in Procs :
    /\ ctl[p].pc = "threw"
    /\ ctl[p].attempt = 2
    /\ ctl[p].requests = <<[model |-> "gpt-4o-mini", reply |-> "500"],
                           [model |-> "gpt-image-1", reply |-> "429"]>>

\* ----------------------------------------------------------------- repair
\* SpecRepair: one inline run of up to two attempts in which nothing throws.
\* The stabilised sheet of an attempt has a nearly empty frame, at a quality
\* score of 80.0, and meets the settings or misses a non-empty frame; the
\* repair changes no slot, or its sheet is clean, or has still an empty frame
\* at a lower score, or has no empty frame and too little motion at a lower
\* score.
RepairEnvs ==
  {[STRICT_QUALITY_GATE |-> TRUE, QUALITY_MIN_SCORE |-> 8500, QUALITY_MAX_ATTEMPTS |-> 2,
    MAX_ESTIMATED_GENERATION_COST_USD |-> 1000000000, dailyGenerationLimit |-> 50]}
RepairInputs == {Request(4, 7, "gpt-image-1")}
SparseFrameSheet ==
  [reasons |-> <<"Detected nearly empty frames">>, penalised |-> 8000 * ScoreUnit,
   failures |-> <<>>, emptyFrameCount |-> 1]
MissingFrameSheet ==
  [SparseFrameSheet EXCEPT
     !.failures = <<"only 3 non-empty frames detected for requested 4 frames">>]
RepairedSheets ==
  {[reasons |-> <<>>, penalised |-> 9000 * ScoreUnit, failures |-> <<>>, emptyFrameCount |-> 0],
   [SparseFrameSheet EXCEPT !.penalised = 7800 * ScoreUnit],
   [reasons |-> <<"Animation motion is too low">>, penalised |-> 7800 * ScoreUnit,
    failures |-> <<>>, emptyFrameCount |-> 0],
   [reasons |-> <<"Animation motion is too low">>, penalised |-> 6000 * ScoreUnit,
    failures |-> <<>>, emptyFrameCount |-> 0]}
RepairAnalyses ==
  {[reasons |-> sheet.reasons, penalised |-> sheet.penalised, failures |-> sheet.failures,
    emptyFrameCount |-> sheet.emptyFrameCount, repaired |-> repaired] :
     sheet \in {SparseFrameSheet, MissingFrameSheet},
     repaired \in {<<>>} \cup {<<r>> : r \in RepairedSheets}}
   \cup {CleanImage}

InitRepair == InitWith(RepairEnvs) /\ call = NoCall

NextRepair ==
  \/ \E input \in RepairInputs : ReqLookup("h1", input, 1)
  \/ ReqCreate("h1")
  \/ ReqCacheSet("h1")
  \/ ReqRoute("h1")
  \/ RunLoad("h1", FALSE)
  \/ RunMarkProcessing("h1", FALSE)
  \/ RunAttempt("h1", {"ok"}, {NoUsage}, RepairAnalyses)
  \/ RunFinalize("h1", FALSE)
  \/ RunUpload("h1", FALSE)
  \/ RunComplete("h1", FALSE)
  \/ RunRegister("h1", FALSE)
  \/ RunReturn("h1", FALSE)
  \/ RunEnd("h1")

SpecRepair == InitRepair /\ [][NextRepair]_vars

\* C24: unless the repaired sheet of an attempt has a strictly higher ranked
\* score than the stabilised original, or passes the settings verification
\* that the original failed, the candidate of the attempt is built from the
\* original: its buffer, its quality result and its verification result.
C24_RepairKeptOnlyIfBetter ==
  \A p \in Procs :
    \A i \in 1 .. Len(ctl[p].candidates) :
      LET an == ctl[p].analysed[i]
          candidate == ctl[p].candidates[i]
          quality == validateSpriteQuality(an.reasons, an.penalised, env.QUALITY_MIN_SCORE)
          settings == verifyImageAgainstRequestedSettings(an.failures)
          rankedScore == quality.score + (IF settings.passed THEN 0 ELSE -1800)
          rp == an.repaired[1]
          rpQuality == validateSpriteQuality(rp.reasons, rp.penalised, env.QUALITY_MIN_SCORE)
          rpSettings == verifyImageAgainstRequestedSettings(rp.failures)
          rpRankedScore == rpQuality.score + (IF rpSettings.passed THEN 0 ELSE -1800)
          better == /\ Len(an.repaired) > 0
                    /\ \/ rpRankedScore > rankedScore
                       \/ rpSettings.passed /\ ~settings.passed
      IN ~better =>
           /\ ~candidate.frameRepair
           /\ candidate.qualityScore = quality.score
           /\ candidate.qualityOk = quality.ok
           /\ candidate.settingsVerification = settings
           /\ candidate.qualityWarnings = dedupeWarnings(quality.reasons \o settings.failures)

\* C25: an attempt that got an image and scored it leaves the run with the
\* model that produced the image as the active model and as the modelVersion
\* of the record, with the attempt ceiling of that model, with a correction
\* prompt of that model's verbosity and issue limit when the loop goes on, and
\* with the budget reduced by the reported tokens at that model's rates; the
\* record names the active model whenever an attempt after the first starts.
C25_RunFollowsModelUsed ==
  [][\A p \in Procs :
       LET c == ctl[p]
           d == ctl'[p]
           completed == d.backendAttempts > c.backendAttempts /\ d.pc # "catch"
           used == d.requests[Len(d.requests)].model
           rates == getModelProfile(used)
           charged == (d.inputTokens - c.inputTokens) * rates.inputPerMTokens
                        + (d.outputTokens - c.outputTokens) * rates.outputPerMTokens
       IN /\ completed =>
               /\ d.activeModel = used
               /\ db'[c.gen].modelVersion = used
               /\ d.maxAttempts = Min(rates.maxAttempts, Max(1, env.QUALITY_MAX_ATTEMPTS))
               /\ d.pc = "loop" =>
                    d.promptForAttempt =
                      buildQualityCorrectionPrompt(
                        d.candidates[Len(d.candidates)].qualityWarnings,
                        rates.compactPrompt, rates.correctionIssueLimit)
               /\ d.remainingBudgetUsd = Max(0, c.remainingBudgetUsd - charged)
          /\ (c.pc = "loop" /\ c.attempt > 0) => db[c.gen].modelVersion = c.activeModel
    ]_vars

\* A run requested with gpt-4o-mini is about to start its third attempt on
\* gpt-image-1, which its second attempt fell back to.
C25_SwitchedInSecondAttempt ==
  \E p \in Procs :
    /\ ctl[p].pc = "loop"
    /\ ctl[p].attempt = 2
    /\ ctl[p].requestedModel = "gpt-4o-mini"
    /\ Len(ctl[p].requests) = 2
    /\ ctl[p].activeModel = "gpt-image-1"
    /\ ctl[p].maxAttempts = 3
    /\ db[ctl[p].gen].modelVersion = "gpt-image-1"

\* ------------------------------------------------------------- frame fill
\* SpecFill: the two tests of an empty frame, on the count of the pixels of a
\* frame whose alpha is above 16, for every sprite size of the request schema.
MinSpriteSize == 32
MaxSpriteSize == 128
MaxPixelCount == 250

\* repairNearEmptyFrames: Math.max(1, Math.floor(spriteSize * spriteSize *
\* MIN_FRAME_FILL_RATIO)); the product of the doubles, floored, is the floor
\* of 15 thousandths of the area for every sprite size of the schema.
targetMinFillPixels(spriteSize) == Max(1, (spriteSize * spriteSize * 15) \div 1000)

\* repairNearEmptyFrames: a frame below the target is a target of the repair,
\* any other frame is a donor.
isNearEmptyFrame(pixelCount, spriteSize) == pixelCount < targetMinFillPixels(spriteSize)

\* validateSpriteQuality: round(nonTransparentCount / frameArea), in
\* ten-thousandths.
frameFillRatio(nonTransparentCount, spriteSize) ==
  LET frameArea == Max(1, spriteSize * spriteSize)
  IN (2 * 10000 * nonTransparentCount + frameArea) \div (2 * frameArea)

\* validateSpriteQuality: frame.fillRatio < thresholds.minFrameFillRatio
isEmptyFrame(nonTransparentCount, spriteSize) ==
  frameFillRatio(nonTransparentCount, spriteSize) < 150

InitFill ==
  /\ InitWith(PureEnvs)
  /\ call \in [fn : {"frameFill"}, spriteSize : MinSpriteSize .. MaxSpriteSize,
               pixelCount : 0 .. MaxPixelCount, returned : {FALSE},
               result : {[nearEmpty |-> FALSE, scoredEmpty |-> FALSE]}]

CallFrameFill ==
  /\ call.fn = "frameFill"
  /\ ~call.returned
  /\ call' = [call EXCEPT
                !.returned = TRUE,
                !.result = [nearEmpty |-> isNearEmptyFrame(call.pixelCount, call.spriteSize),
                            scoredEmpty |-> isEmptyFrame(call.pixelCount, call.spriteSize)]]
  /\ UNCHANGED program

NextFill == CallFrameFill

SpecFill == InitFill /\ [][NextFill]_vars

\* C26: the repair treats a frame as near-empty exactly when its count of
\* opaque pixels is below 0.015 of the frame area, and every frame the scorer
\* counts as empty is near-empty for the repair.
C26_NearEmptyBelowFillRatio ==
  (call.fn = "frameFill" /\ call.returned) =>
    /\ call.result.nearEmpty <=>
         call.pixelCount * 1000 < call.spriteSize * call.spriteSize * 15
    /\ call.result.scoredEmpty => call.result.nearEmpty

\* ------------------------------------------------------------ regeneration
\* SpecRegen: one user issues up to MaxRequests requests, each a POST /sprite
\* or a POST /:id/regenerate of a generation, handled one after the other and
\* run inline with a single attempt, and deletes generations in between.
RegenInputs == {Request(4, 7, "gpt-image-1")}

InitRegen == InitWith(CacheEnvs) /\ call = NoCall

NextRegen ==
  \/ \E input \in RegenInputs : ReqLookup("h1", input, MaxRequests)
  \/ \E g \in GenIds : ReqRegenerate("h1", g, "u1", MaxRequests)
  \/ \E g \in GenIds : DeleteGeneration(g, "u1")
  \/ ReqCreate("h1")
  \/ ReqCacheSet("h1")
  \/ ReqRoute("h1")
  \/ RunLoad("h1", FALSE)
  \/ RunMarkProcessing("h1", FALSE)
  \/ RunAttempt("h1", CacheReplies, CacheUsages, CacheAnalyses)
  \/ RunFinalize("h1", FALSE)
  \/ RunUpload("h1", FALSE)
  \/ RunComplete("h1", FALSE)
  \/ RunRegister("h1", FALSE)
  \/ RunReturn("h1", FALSE)
  \/ RunCatch("h1", FALSE)
  \/ RunEnd("h1")

SpecRegen == InitRegen /\ [][NextRegen]_vars

\* C27: a POST /:id/regenerate that found the generation, and was not refused
\* for the daily limit or the budget, has started a new generation and has
\* not answered 500 "Failed to initialize regeneration".
C27_RegenerateStartsNewGeneration ==
  \A h \in Handlers :
    (req[h].route = "regenerate" /\ req[h].response \notin {"404", "429", "402"}) =>
      /\ req[h].response # RegenerationInitFailure
      /\ req[h].pc # "idle" => req[h].pc = "create" \/ req[h].genId # NoGen

\* C28: with the strict gate off, a run that has returned without an accepted
\* attempt, one of whose candidates passed the settings verification with a
\* quality score of at least QUALITY_MIN_SCORE, has completed its generation.
C28_QualifiedCandidateCompletes ==
  \A p \in Procs :
    LET c == ctl[p]
        succeeded == \E i \in 1 .. Len(c.candidates) :
                       /\ c.candidates[i].qualityOk
                       /\ c.candidates[i].settingsVerification.passed
        qualified == \E i \in 1 .. Len(c.candidates) :
                       /\ c.candidates[i].settingsVerification.passed
                       /\ c.candidates[i].qualityScore >= env.QUALITY_MIN_SCORE
    IN (~env.STRICT_QUALITY_GATE /\ c.pc = "returned" /\ ~succeeded /\ qualified) =>
         /\ c.outcome = "completed"
         /\ db[c.gen].status = "COMPLETED"

\* ----------------------------------------------------- layout round trip
\* SpecRoundTrip: a request of frameCount frames in a row or in a grid, with
\* or without columns (0: not supplied), is stored with the layout that
\* createGenerationRequest resolves; buildRegenerationInput rebuilds a
\* request from the stored row and createGenerationRequest resolves its
\* layout in turn.
InitRoundTrip ==
  /\ InitWith(PureEnvs)
  /\ call \in [fn : {"regenerationLayout"}, frameCount : 1 .. MaxFrameCount,
               layout : {"row", "grid"}, columns : 0 .. MaxColumns,
               returned : {FALSE}, stored : {[columns |-> 0, rows |-> 0]},
               result : {[columns |-> 0, rows |-> 0]}]

CallRegenerationLayout ==
  /\ call.fn = "regenerationLayout"
  /\ ~call.returned
  /\ LET stored == resolveLayout(call.frameCount, call.layout, call.columns)
         generation == [NoRow EXCEPT !.status = "COMPLETED", !.userId = "u1",
                                     !.frameCount = call.frameCount,
                                     !.columns = stored.columns, !.rows = stored.rows]
         input == buildRegenerationInput(generation)
     IN call' = [call EXCEPT !.returned = TRUE, !.stored = stored,
                             !.result = resolveLayout(input.frameCount, input.layout,
                                                      input.columns)]
  /\ UNCHANGED program

NextRoundTrip == CallRegenerationLayout

SpecRoundTrip == InitRoundTrip /\ [][NextRoundTrip]_vars

\* C29: the input rebuilt from a stored generation resolves to the columns
\* and rows of the stored generation.
C29_LayoutRoundTrip ==
  (call.fn = "regenerationLayout" /\ call.returned) => call.result = call.stored

\* C30: createGenerationRequest serves from the cache only a generation of
\* the caller that exists and is not FAILED; a call that is not refused and
\* finds the cache entry pointing to no such generation goes on to create a
\* row, the row it creates is a new PENDING one, and the cache entry of the
\* fingerprint is overwritten with the id of that row.
C30_FailedNeverServed ==
  [][\A h \in Handlers :
       LET r == req[h]
           q == req'[h]
           looked == r.pc = "idle" /\ q # r /\ issued' > issued
           cachedId == redisGet(InputFingerprint(q.input))
           servable == /\ db[cachedId].status \notin {"NONE", "FAILED"}
                       /\ db[cachedId].userId = q.input.userId
       IN /\ (looked /\ q.response = "cacheHit") =>
               /\ q.genId = cachedId
               /\ db[q.genId].status \notin {"NONE", "FAILED"}
               /\ db[q.genId].userId = q.input.userId
          /\ (looked /\ q.response \notin {"404", "429", "402"}
                /\ cachedId # NoGen /\ ~servable) => q.pc = "create"
          /\ (r.pc = "create" /\ q.pc = "setcache") =>
               /\ db[q.genId].status = "NONE"
               /\ db'[q.genId].status = "PENDING"
               /\ q.genId # r.seenId
          /\ (r.pc = "setcache" /\ q.pc = "route") =>
               <<InputFingerprint(r.input), r.genId>> \in cache'
    ]_vars

\* A request found the cache entry of its fingerprint pointing to a FAILED
\* generation, has created another generation and has put its id in the
\* cache.
C30_ResubmittedAfterFailure ==
  \E h \in Handlers :
    /\ req[h].pc = "route"
    /\ req[h].seenId # NoGen
    /\ req[h].seenStatus = "FAILED"
    /\ req[h].genId # req[h].seenId
    /\ db[req[h].genId].status = "PENDING"
    /\ redisGet(InputFingerprint(req[h].input)) = req[h].genId

====
